---- MODULE Spec2Model ----
\* Model of the ma_blocks block relationship and layout engine:
\*   BlockManager (src/src/block_manager.rs), ImageBlock (src/src/block.rs) and the
\*   handlers of MaBlocksApp (src/src/main.rs): loading of images and sessions, drag,
\*   drop, resize gesture, counter clicks, compact toggle.  An action is one call of
\*   the BlockManager API or one whole handler (frame) of the application.
\*
\* Conventions
\*   - Vec indices are 0-based in the source and 1-based here (index k in the source is
\*     k + 1 in the model).
\*   - f32 coordinates and sizes are integers (pixels).  Every input set below is chosen
\*     so that the divisions the code performs (width / aspect_ratio) are exact.
\*   - An aspect ratio is the pair [n, d] standing for n / d.
\*   - A Uuid is a natural number; Uuid::new_v4() is a fresh number taken from
\*     next_block_id, the counter the program advances at every block creation.  In
\*     the registry specification, whose callers build blocks without the counter, it
\*     is the least number the state holds nowhere.
\*   - anim.frames (a Vec of decoded frames) is its length.
EXTENDS Integers, Sequences, FiniteSets, TLC

VARIABLES
    blocks,                  \* BlockManager.blocks : Vec<ImageBlock>
    next_block_id,           \* BlockManager.next_block_id
    remembered_chains,       \* BlockManager.remembered_chains : Vec<HashSet<Uuid>>
    animation_access_order,  \* BlockManager.animation_access_order : Vec<Uuid>
    panicked,                \* TRUE once an operation has panicked (index out of bounds)
    last_unboxed_ids,        \* MaBlocksApp.last_unboxed_ids : Vec<Uuid>
    last_boxed_id,           \* MaBlocksApp.last_boxed_id : Option<Uuid>
    resizing_state,          \* MaBlocksApp.resizing_state : Option<InteractionState>
    last,                    \* history: the last operation and its arguments
    mark_run                 \* history: ids passed to mark_animation_used, oldest first

vars == <<blocks, next_block_id, remembered_chains, animation_access_order,
          panicked, last_unboxed_ids, last_boxed_id, resizing_state, last, mark_run>>

\* ---------------------------------------------------------------------------
\* Program constants (src/src/constants.rs)
\* ---------------------------------------------------------------------------
BLOCK_PADDING == 4
MIN_BLOCK_SIZE == 50
ROW_QUANTIZATION_HEIGHT == 100
DEFAULT_GROUP_SIZE == 160
CANVAS_PADDING == 32
ALIGN_SPACING == 24
MIN_CANVAS_INNER_WIDTH == MIN_BLOCK_SIZE + BLOCK_PADDING * 2
MAX_CACHED_ANIMATIONS == 20
MAX_BLOCK_DIMENSION == 420
\* the working inner width of the canvas at start-up (main.rs)
CANVAS_WORKING_WIDTH == 1400
\* f32::MAX, the start value of the minimum search in box_chained; every coordinate of
\* the model is below it.
F32_MAX == 2147483647
\* Uuid::nil()
NIL_UUID == 0

\* ---------------------------------------------------------------------------
\* Bounds of the model
\* ---------------------------------------------------------------------------
\* blocks ever created (images and groups) in the chain / group specification
MaxBlocks == 4
\* blocks ever created in the layout specification
MaxLayoutBlocks == 2
MaxReflowBlocks == 3
MaxOrderBlocks == 5
\* blocks created after the warm start in the cache specification
MaxCachePush == 3
MaxLruPush == 2
MaxOpsBlocks == 3
MaxReorderBlocks == 3
MaxResizeBlocks == 2
MaxCompactBlocks == 2
MaxStaleBlocks == 2
MaxSide == 100
\* largest coordinate a drag may reach
MaxCoord == 300

\* ---------------------------------------------------------------------------
\* Sequence helpers (Vec operations)
\* ---------------------------------------------------------------------------
Min(a, b) == IF a <= b THEN a ELSE b
Max(a, b) == IF a >= b THEN a ELSE b

\* Vec::remove(i)
RemoveAt(s, i) == SubSeq(s, 1, i - 1) \o SubSeq(s, i + 1, Len(s))
\* Vec::insert(i, x)
InsertAt(s, i, x) == SubSeq(s, 1, i - 1) \o <<x>> \o SubSeq(s, i, Len(s))
\* Vec::reverse
Reverse(s) == [i \in 1..Len(s) |-> s[Len(s) + 1 - i]]
\* Iterator::position: first index satisfying P, or 0 (None)
PositionOf(s, P(_)) ==
    IF \E i \in 1..Len(s) : P(s[i])
    THEN CHOOSE i \in 1..Len(s) : P(s[i]) /\ \A j \in 1..(i - 1) : ~P(s[j])
    ELSE 0
Range(s) == {s[i] : i \in 1..Len(s)}

\* ---------------------------------------------------------------------------
\* ImageBlock (src/src/block.rs)
\* ---------------------------------------------------------------------------
Vec2(x, y) == [x |-> x, y |-> y]

\* a path is the number of the image file it names (the caller of ImageBlock::new gives
\* each block its own file); String::new(), the path of a group, names no file
NO_PATH == 0

\* Path::file_name of a path: the file's number, or "unnamed" (0) when the path names none
file_name(path) == IF path = NO_PATH THEN 0 ELSE path

\* a group name: "Empty Group", "Box: <file name>" (arg the file name) or "Group of <n>"
\* (arg the count); String::new() is the kind ""
GroupName(kind, arg) == [kind |-> kind, arg |-> arg]

NoName == GroupName("", 0)

\* ImageBlock::new
ImageBlock_new(id, image_size, frames, is_full_sequence) ==
    [ id |-> id,
      position |-> Vec2(0, 0),
      is_dragging |-> FALSE,
      frames |-> frames,
      current_frame |-> 0,
      animation_enabled |-> FALSE,
      is_group |-> FALSE,
      children |-> <<>>,
      image_size |-> image_size,
      preferred_image_size |-> image_size,
      aspect_ratio |-> IF image_size.y > 0
                       THEN [n |-> image_size.x, d |-> image_size.y]
                       ELSE [n |-> 1, d |-> 1],
      chained |-> FALSE,
      counter |-> 0,
      path |-> id,
      group_name |-> NoName,
      is_full_sequence |-> is_full_sequence ]

\* ImageBlock::new_group
ImageBlock_new_group(id, children) ==
    [ id |-> id,
      position |-> Vec2(0, 0),
      is_dragging |-> FALSE,
      frames |-> 0,
      current_frame |-> 0,
      animation_enabled |-> FALSE,
      is_group |-> TRUE,
      children |-> children,
      image_size |-> Vec2(DEFAULT_GROUP_SIZE, DEFAULT_GROUP_SIZE),
      preferred_image_size |-> Vec2(DEFAULT_GROUP_SIZE, DEFAULT_GROUP_SIZE),
      aspect_ratio |-> [n |-> 1, d |-> 1],
      chained |-> FALSE,
      counter |-> 0,
      path |-> NO_PATH,
      group_name |-> NoName,
      is_full_sequence |-> TRUE ]

\* ImageBlock::update_group_name mistaken: the name counts the children even when
\* there is exactly one
update_group_name_count_only(b) ==
    IF ~b.is_group THEN b
    ELSE IF Len(b.children) >= 1
    THEN [b EXCEPT !.group_name = GroupName("Group of", Len(b.children))]
    ELSE [b EXCEPT !.group_name = GroupName("Empty Group", 0)]

\* ImageBlock::update_group_name
update_group_name(b) ==
    IF ~b.is_group THEN b
    ELSE IF Len(b.children) > 1
    THEN [b EXCEPT !.group_name = GroupName("Group of", Len(b.children))]
    ELSE IF Len(b.children) = 1
    THEN [b EXCEPT !.group_name = GroupName("Box", file_name(b.children[1].path))]
    ELSE [b EXCEPT !.group_name = GroupName("Empty Group", 0)]

\* ImageBlock::reset_counters_recursive mistaken: the children keep their counters
reset_counters_top_only(b) == [b EXCEPT !.counter = 0]

\* ImageBlock::reset_counters_recursive
RECURSIVE reset_counters_recursive(_)
reset_counters_recursive(b) ==
    [b EXCEPT !.counter = 0,
              !.children = [k \in 1..Len(b.children) |->
                               reset_counters_recursive(b.children[k])]]

\* mutant: the outer size without the padding
outer_size_unpadded(b) == Vec2(b.image_size.x, b.image_size.y)

\* ImageBlock::outer_size
outer_size(b) ==
    Vec2(b.image_size.x + BLOCK_PADDING * 2, b.image_size.y + BLOCK_PADDING * 2)

\* ImageBlock::stop_animation
stop_animation(b) ==
    [b EXCEPT !.animation_enabled = FALSE, !.current_frame = 0]

\* ---------------------------------------------------------------------------
\* BlockManager (src/src/block_manager.rs).  An operation takes the manager `self`
\* (a record of its fields) and yields the manager after the call.
\* ---------------------------------------------------------------------------
\* BlockManager::new
BlockManager_new ==
    [ blocks |-> <<>>,
      next_block_id |-> 0,
      remembered_chains |-> <<>>,
      animation_access_order |-> <<>>,
      panicked |-> FALSE,
      last_unboxed_ids |-> <<>>,
      last_boxed_id |-> NIL_UUID ]

\* BlockManager::index_of (0 = None)
index_of(self, id) == PositionOf(self.blocks, LAMBDA b : b.id = id)

\* BlockManager::push
push(self, block) == [self EXCEPT !.blocks = Append(self.blocks, block)]

\* BlockManager::allocate_block_id: the counter advances (the old value is returned)
allocate_block_id(self) == [self EXCEPT !.next_block_id = self.next_block_id + 1]

\* BlockManager::insert; Vec::insert panics when the index is past the length
insert(self, index, block) ==
    IF index > Len(self.blocks) + 1 THEN [self EXCEPT !.panicked = TRUE]
    ELSE [self EXCEPT !.blocks = InsertAt(self.blocks, index, block)]

\* BlockManager::clear: the blocks and the access order are emptied, the remembered
\* chains and the id counter stay
clear(self) == [self EXCEPT !.blocks = <<>>, !.animation_access_order = <<>>]

\* BlockManager::set_remembered_chains: the chains are taken as given
set_remembered_chains(self, chains) == [self EXCEPT !.remembered_chains = chains]

\* BlockManager::get_mut(id), the caller writing the chained flag of the block found
get_mut_set_chained(self, id, chained) ==
    LET idx == index_of(self, id) IN
    IF idx = 0 THEN self ELSE [self EXCEPT !.blocks[idx].chained = chained]

\* BlockManager::blocks_mut, the caller writing the counter of the block at index
blocks_mut_set_counter(self, index, counter) ==
    IF index > Len(self.blocks) THEN [self EXCEPT !.panicked = TRUE]
    ELSE [self EXCEPT !.blocks[index].counter = counter]

\* Vec::retain(|&x| x != id) on the access order
retain_not(order, id) == SelectSeq(order, LAMBDA x : x # id)

\* BlockManager::remove
remove(self, index) ==
    LET block == self.blocks[index] IN
    [self EXCEPT !.blocks = RemoveAt(self.blocks, index),
                 !.animation_access_order = retain_not(self.animation_access_order, block.id)]

\* BlockManager::remove_by_id
remove_by_id(self, id) ==
    IF index_of(self, id) = 0 THEN self ELSE remove(self, index_of(self, id))

\* collect_child_ids: the ids of all descendants, depth first
RECURSIVE collect_child_ids(_)
collect_child_ids(block) ==
    LET RECURSIVE walk(_)
        walk(cs) == IF cs = <<>> THEN <<>>
                    ELSE <<Head(cs).id>> \o collect_child_ids(Head(cs)) \o walk(Tail(cs))
    IN walk(block.children)

\* the clean-up loop stopping after the first removed id
retain_first_only(order, ids) ==
    IF ids = <<>> THEN order ELSE retain_not(order, Head(ids))

\* the for loop `animation_access_order.retain(|&x| x != *id)` over removed ids
RECURSIVE retain_none_of(_, _)
retain_none_of(order, ids) ==
    IF ids = <<>> THEN order
    ELSE retain_none_of(retain_not(order, Head(ids)), Tail(ids))

\* the ids remove_with_children returns
remove_with_children_ids(self, index) ==
    <<self.blocks[index].id>> \o collect_child_ids(self.blocks[index])

\* BlockManager::remove_with_children
remove_with_children(self, index) ==
    [self EXCEPT !.blocks = RemoveAt(self.blocks, index),
                 !.animation_access_order =
                     retain_none_of(self.animation_access_order,
                                    remove_with_children_ids(self, index))]

\* BlockManager::chained_indices, ascending
chained_indices(self) ==
    SelectSeq([i \in 1..Len(self.blocks) |-> i], LAMBDA i : self.blocks[i].chained)

\* BlockManager::chained_ids
chained_ids(self) == {self.blocks[i].id : i \in Range(chained_indices(self))}

\* BlockManager::chained_count
chained_count(self) == Len(chained_indices(self))

\* the ids remove_cascade returns: each chained block, highest index first, followed by
\* its descendants
RECURSIVE cascade_ids(_, _)
cascade_ids(bs, idxs) ==
    IF idxs = <<>> THEN <<>>
    ELSE <<bs[Head(idxs)].id>> \o collect_child_ids(bs[Head(idxs)])
         \o cascade_ids(bs, Tail(idxs))

remove_cascade_ids(self, index) ==
    IF ~self.blocks[index].chained
    THEN remove_with_children_ids(self, index)
    ELSE cascade_ids(self.blocks, Reverse(chained_indices(self)))

\* BlockManager::remove_cascade
remove_cascade(self, index) ==
    IF ~self.blocks[index].chained
    THEN remove_with_children(self, index)
    ELSE LET removed == remove_cascade_ids(self, index)
             removed_set == Range(removed)
         IN [self EXCEPT
               !.blocks = SelectSeq(self.blocks, LAMBDA b : ~b.chained),
               !.remembered_chains =
                   SelectSeq(self.remembered_chains,
                             LAMBDA chain : chain \cap removed_set = {}),
               !.animation_access_order =
                   retain_none_of(self.animation_access_order, removed)]

\* mutant: the purged block keeps playing
purge_animation_frames_keep_playing(self, id) ==
    LET idx == index_of(self, id) IN
    IF idx # 0 /\ self.blocks[idx].is_full_sequence /\ self.blocks[idx].frames > 1
    THEN [self EXCEPT !.blocks[idx].frames = 1, !.blocks[idx].is_full_sequence = FALSE]
    ELSE self
\* BlockManager::purge_animation_frames
purge_animation_frames(self, id) ==
    LET idx == index_of(self, id) IN
    IF idx # 0 /\ self.blocks[idx].is_full_sequence /\ self.blocks[idx].frames > 1
    THEN [self EXCEPT !.blocks[idx] =
             stop_animation([self.blocks[idx] EXCEPT !.frames = 1,
                                                     !.is_full_sequence = FALSE])]
    ELSE self

\* mutant: the id is pushed without being removed from where it was
mark_animation_used_push_only(self, id) ==
    LET order == Append(self.animation_access_order, id) IN
    IF Len(order) > MAX_CACHED_ANIMATIONS
    THEN purge_animation_frames([self EXCEPT !.animation_access_order = Tail(order)],
                                Head(order))
    ELSE [self EXCEPT !.animation_access_order = order]

\* BlockManager::mark_animation_used
mark_animation_used(self, id) ==
    LET order == Append(retain_not(self.animation_access_order, id), id) IN
    IF Len(order) > MAX_CACHED_ANIMATIONS
    THEN purge_animation_frames([self EXCEPT !.animation_access_order = Tail(order)],
                                Head(order))
    ELSE [self EXCEPT !.animation_access_order = order]

\* BlockManager::can_chain
can_chain(self) == self.blocks # <<>>

\* mutant of remember_chain: the overlapping chains are kept
remember_chain_keep_overlaps(chains, ids) == Append(chains, ids)

\* insert-and-evict of clear_chain_group: retain the disjoint chains, push the new one
remember_chain(chains, ids) ==
    Append(SelectSeq(chains, LAMBDA chain : chain \cap ids = {}), ids)

\* clear_chain_group remembering every nonempty chained set
clear_chain_group_remember_single(self) ==
    LET ids == chained_ids(self) IN
    [self EXCEPT
       !.remembered_chains = IF Cardinality(ids) >= 1
                             THEN remember_chain(self.remembered_chains, ids)
                             ELSE self.remembered_chains,
       !.blocks = [i \in 1..Len(self.blocks) |->
                      [self.blocks[i] EXCEPT !.chained = FALSE]]]

\* BlockManager::clear_chain_group
clear_chain_group(self) ==
    LET ids == chained_ids(self) IN
    [self EXCEPT
       !.remembered_chains = IF Cardinality(ids) >= 2
                             THEN remember_chain(self.remembered_chains, ids)
                             ELSE self.remembered_chains,
       !.blocks = [i \in 1..Len(self.blocks) |->
                      [self.blocks[i] EXCEPT !.chained = FALSE]]]

\* mutant of toggle_chain: the remembered chains are ignored
toggle_chain_clicked_only(self, index) ==
    [self EXCEPT !.blocks[index].chained = ~self.blocks[index].chained]

\* toggle_chain forgetting the remembered chains of a block that is turned off
toggle_chain_forget_on_off(self, index) ==
    LET block_id == self.blocks[index].id IN
    IF self.blocks[index].chained
    THEN [self EXCEPT !.blocks[index].chained = FALSE,
                      !.remembered_chains =
                          SelectSeq(self.remembered_chains,
                                    LAMBDA chain : block_id \notin chain)]
    ELSE IF \E k \in 1..Len(self.remembered_chains) : block_id \in self.remembered_chains[k]
    THEN [self EXCEPT !.blocks =
            [i \in 1..Len(self.blocks) |->
               IF \E k \in 1..Len(self.remembered_chains) :
                      /\ block_id \in self.remembered_chains[k]
                      /\ self.blocks[i].id \in self.remembered_chains[k]
                      /\ \A m \in 1..(k - 1) : block_id \notin self.remembered_chains[m]
               THEN [self.blocks[i] EXCEPT !.chained = TRUE]
               ELSE self.blocks[i]]]
    ELSE [self EXCEPT !.blocks[index].chained = TRUE]

\* BlockManager::toggle_chain
toggle_chain(self, index) ==
    IF ~can_chain(self) /\ ~self.blocks[index].is_group THEN self
    ELSE
    LET block_id == self.blocks[index].id
        was_chained == self.blocks[index].chained
        found == PositionOf(self.remembered_chains, LAMBDA chain : block_id \in chain)
    IN  IF ~was_chained
        THEN IF found # 0
             THEN [self EXCEPT !.blocks =
                     [i \in 1..Len(self.blocks) |->
                        IF self.blocks[i].id \in self.remembered_chains[found]
                        THEN [self.blocks[i] EXCEPT !.chained = TRUE]
                        ELSE self.blocks[i]]]
             ELSE [self EXCEPT !.blocks[index].chained = TRUE]
        ELSE [self EXCEPT !.blocks[index].chained = FALSE]

\* the removal loop of box_chained: indices come highest first
RECURSIVE box_take(_, _, _, _)
box_take(bs, idxs, children, min_pos) ==
    IF idxs = <<>> THEN [blocks |-> bs, children |-> children, min_pos |-> min_pos]
    ELSE LET block == bs[Head(idxs)] IN
         box_take(RemoveAt(bs, Head(idxs)), Tail(idxs), Append(children, block),
                  Vec2(Min(min_pos.x, block.position.x), Min(min_pos.y, block.position.y)))

\* the Uuid of the block created next
fresh_uuid(self) == self.next_block_id + 1

\* the id box_chained returns
box_chained_id(self) ==
    IF chained_indices(self) = <<>> THEN NIL_UUID ELSE fresh_uuid(self)

\* mutant: the children stay in the order of their removal, highest index first
box_chained_children_reversed(self) ==
    IF chained_indices(self) = <<>> THEN self
    ELSE LET taken == box_take(self.blocks, Reverse(chained_indices(self)), <<>>,
                               Vec2(F32_MAX, F32_MAX))
             group_block == [update_group_name(
                                 ImageBlock_new_group(fresh_uuid(self), taken.children))
                                EXCEPT !.position = taken.min_pos]
         IN [self EXCEPT !.blocks = InsertAt(taken.blocks, 1, group_block),
                         !.next_block_id = self.next_block_id + 1]
\* BlockManager::box_chained
box_chained(self) ==
    IF chained_indices(self) = <<>> THEN self
    ELSE LET taken == box_take(self.blocks, Reverse(chained_indices(self)), <<>>,
                               Vec2(F32_MAX, F32_MAX))
             children == Reverse(taken.children)
             group_block == [update_group_name(
                                 ImageBlock_new_group(fresh_uuid(self), children))
                                EXCEPT !.position = taken.min_pos]
         IN [self EXCEPT !.blocks = InsertAt(taken.blocks, 1, group_block),
                         !.next_block_id = self.next_block_id + 1]

\* mutant: the children come back still chained
RECURSIVE unbox_insert_keep_chained(_, _, _)
unbox_insert_keep_chained(bs, at, children) ==
    IF children = <<>> THEN bs
    ELSE unbox_insert_keep_chained(InsertAt(bs, at, Head(children)), at + 1,
                                   Tail(children))
\* the insertion loop of unbox_group
RECURSIVE unbox_insert(_, _, _)
unbox_insert(bs, at, children) ==
    IF children = <<>> THEN bs
    ELSE unbox_insert(InsertAt(bs, at, [Head(children) EXCEPT !.chained = FALSE]),
                      at + 1, Tail(children))

\* the ids unbox_group returns
unbox_group_ids(self, index) ==
    IF self.blocks[index].is_group
    THEN [i \in 1..Len(self.blocks[index].children) |-> self.blocks[index].children[i].id]
    ELSE <<>>

\* mutant: the children are put at the end of the collection
unbox_group_at_end(self, index) ==
    LET group == self.blocks[index]
        rest == RemoveAt(self.blocks, index)
    IN  IF group.is_group
        THEN [self EXCEPT !.blocks = unbox_insert(rest, Len(rest) + 1, group.children)]
        ELSE [self EXCEPT !.blocks = rest]
\* BlockManager::unbox_group
unbox_group(self, index) ==
    LET group == self.blocks[index]
        rest == RemoveAt(self.blocks, index)
        found == PositionOf(rest, LAMBDA b : ~b.is_group)
        insert_idx == IF found # 0 THEN found ELSE Len(rest) + 1
    IN  IF group.is_group
        THEN [self EXCEPT !.blocks = unbox_insert(rest, insert_idx, group.children)]
        ELSE [self EXCEPT !.blocks = rest]

\* BlockManager::move_single_into_group; indexing past the end of the Vec panics
move_single_into_group(self, block_idx, group_idx) ==
    LET block == [self.blocks[block_idx] EXCEPT !.is_dragging = FALSE, !.chained = FALSE]
        rest == RemoveAt(self.blocks, block_idx)
        target_idx == IF group_idx > block_idx THEN group_idx - 1 ELSE group_idx
    IN  IF target_idx > Len(rest)
        THEN [self EXCEPT !.blocks = rest, !.panicked = TRUE]
        ELSE [self EXCEPT !.blocks =
                 [rest EXCEPT ![target_idx] =
                     update_group_name([@ EXCEPT !.children = Append(@, block)])]]

\* the loop of drop_into_group over the chained ids, taken in the order `ids`
RECURSIVE drop_each(_, _, _)
drop_each(self, ids, group_id) ==
    IF ids = <<>> \/ self.panicked THEN self
    ELSE LET b_idx == index_of(self, Head(ids))
             g_idx == index_of(self, group_id)
         IN  IF b_idx # 0 /\ g_idx # 0
             THEN drop_each(move_single_into_group(self, b_idx, g_idx), Tail(ids), group_id)
             ELSE drop_each(self, Tail(ids), group_id)

\* BlockManager::drop_into_group.  chained_ids() is a HashSet and its iteration order is
\* not determined: `order` is the order in which the loop visits the chained ids.
drop_into_group(self, block_idx, group_idx, order) ==
    IF self.blocks[block_idx].chained
    THEN drop_each(self, order, self.blocks[group_idx].id)
    ELSE move_single_into_group(self, block_idx, group_idx)

\* the orders in which a HashSet of ids may be iterated
Orders(ids) ==
    {o \in [1..Cardinality(ids) -> ids] : \A i, j \in 1..Cardinality(ids) : i # j => o[i] # o[j]}

\* BlockManager::reset_all_counters
reset_all_counters(self) ==
    [self EXCEPT !.blocks = [i \in 1..Len(self.blocks) |->
                                reset_counters_recursive(self.blocks[i])]]

\* a primary click on the counter button of the block at `index` (main.rs, update)
counter_primary_click(self, index) ==
    [self EXCEPT !.blocks[index].counter = @ + 1]

\* a secondary click on the counter button of the block at `index` (main.rs, update)
counter_secondary_click(self, index) ==
    [self EXCEPT !.blocks[index].counter = Max(@ - 1, 0)]

\* ---------------------------------------------------------------------------
\* Layout (src/src/block.rs, src/src/block_manager.rs)
\* ---------------------------------------------------------------------------
\* `(y / ROW_QUANTIZATION_HEIGHT) as i32`: the quotient truncated toward zero
row_index(y) ==
    IF y >= 0 THEN y \div ROW_QUANTIZATION_HEIGHT
    ELSE -((-y) \div ROW_QUANTIZATION_HEIGHT)

\* mutant: the size a former reflow left is kept
reset_to_preferred_size_never(b) == b
\* ImageBlock::reset_to_preferred_size
reset_to_preferred_size(b) == [b EXCEPT !.image_size = b.preferred_image_size]

\* mutant: the image keeps its width whatever the canvas width
constrain_to_width_never(b, max_width) == b
\* ImageBlock::constrain_to_width.  f32::EPSILON is below the spacing of the floats at
\* every width of the model, so `x <= max_width + EPSILON` is `x <= max_width`.
constrain_to_width(b, max_width) ==
    IF b.image_size.x <= max_width THEN b
    ELSE LET constrained_width == Max(max_width, 1)
             constrained_height == (constrained_width * b.aspect_ratio.d) \div b.aspect_ratio.n
         IN [b EXCEPT !.image_size = Vec2(constrained_width, constrained_height)]

\* ImageBlock::cmp_layout
cmp_layout(a, b) ==
    IF a.is_group /\ ~b.is_group THEN "Less"
    ELSE IF ~a.is_group /\ b.is_group THEN "Greater"
    ELSE LET a_y_q == row_index(a.position.y)
             b_y_q == row_index(b.position.y)
         IN  IF a_y_q < b_y_q THEN "Less"
             ELSE IF a_y_q > b_y_q THEN "Greater"
             ELSE IF a.position.x < b.position.x THEN "Less"
             ELSE IF a.position.x > b.position.x THEN "Greater"
             ELSE "Equal"

\* slice::sort_by(cmp_layout): a stable sort, here by insertion
RECURSIVE sort_insert(_, _)
sort_insert(sorted, b) ==
    IF sorted = <<>> THEN <<b>>
    ELSE IF cmp_layout(b, Head(sorted)) = "Less" THEN <<b>> \o sorted
    ELSE <<Head(sorted)>> \o sort_insert(Tail(sorted), b)

\* no sort: the blocks stay in the order they have
sort_by_layout_keep_order(bs) == bs

RECURSIVE sort_by_layout(_)
sort_by_layout(bs) ==
    IF bs = <<>> THEN <<>>
    ELSE sort_insert(sort_by_layout(SubSeq(bs, 1, Len(bs) - 1)), bs[Len(bs)])

\* mutant: the block is moved by the cursor instead of being put at it
place_at_offset(b, cursor) ==
    [b EXCEPT !.position = Vec2(b.position.x + cursor.x, b.position.y + cursor.y)]
\* the position reflow gives the block that the cursor has reached
place_at(b, cursor) == [b EXCEPT !.position = Vec2(cursor.x, cursor.y)]

\* mutant: a category change never breaks the row
category_break_never(prev, block, cursor) == FALSE
\* the row-break test of reflow: the group/non-group category changes in a started row
category_break(prev, block, cursor) ==
    prev # <<>> /\ prev[1] # block.is_group /\ cursor.x > CANVAS_PADDING

\* the packing loop of reflow over bs[k..]; prev is <<>> (None) or <<is_group>>
RECURSIVE reflow_pack(_, _, _, _, _, _)
reflow_pack(bs, k, cursor, row_height, prev, row_limit) ==
    IF k > Len(bs) THEN bs
    ELSE LET block == bs[k]
             break == category_break(prev, block, cursor)
             c1 == IF break
                   THEN Vec2(CANVAS_PADDING, cursor.y + row_height + ALIGN_SPACING)
                   ELSE cursor
             h1 == IF break THEN 0 ELSE row_height
             size == outer_size(block)
             wrap == c1.x + size.x > row_limit
             c2 == IF wrap THEN Vec2(CANVAS_PADDING, c1.y + h1 + ALIGN_SPACING) ELSE c1
             h2 == IF wrap THEN 0 ELSE h1
         IN reflow_pack([bs EXCEPT ![k] = place_at(block, c2)], k + 1,
                        Vec2(c2.x + size.x + ALIGN_SPACING, c2.y), Max(h2, size.y),
                        <<block.is_group>>, row_limit)

\* BlockManager::reflow
reflow(self, inner_width_arg) ==
    LET inner_width == Max(inner_width_arg, MIN_CANVAS_INNER_WIDTH)
        row_limit == CANVAS_PADDING + inner_width
        max_image_width == Max(inner_width - BLOCK_PADDING * 2, 1)
        sized == [i \in 1..Len(self.blocks) |->
                    constrain_to_width(reset_to_preferred_size(self.blocks[i]),
                                       max_image_width)]
    IN [self EXCEPT !.blocks =
           reflow_pack(sized, 1, Vec2(CANVAS_PADDING, CANVAS_PADDING), 0, <<>>, row_limit)]

\* mutant: rows by the floor of the quotient, and a leader at the same x goes first
should_insert_before_floor(leader_pos, block_pos) ==
    LET leader_y_q == leader_pos.y \div ROW_QUANTIZATION_HEIGHT
        block_y_q == block_pos.y \div ROW_QUANTIZATION_HEIGHT
    IN leader_y_q < block_y_q \/ (leader_y_q = block_y_q /\ leader_pos.x <= block_pos.x)

\* BlockManager::should_insert_before
should_insert_before(leader_pos, block_pos) ==
    LET leader_y_q == row_index(leader_pos.y)
        block_y_q == row_index(block_pos.y)
    IN leader_y_q < block_y_q \/ (leader_y_q = block_y_q /\ leader_pos.x < block_pos.x)

\* BlockManager::find_insert_index; remaining, the result and group_boundary count from 0
find_insert_index(remaining, leader_pos, is_leader_group, group_boundary) ==
    LET lo == IF is_leader_group THEN 1 ELSE group_boundary + 1
        hi == IF is_leader_group THEN group_boundary ELSE Len(remaining)
        hit == {i \in lo..hi : should_insert_before(leader_pos, remaining[i].position)}
    IN  IF hit # {} THEN (CHOOSE i \in hit : \A j \in hit : i <= j) - 1
        ELSE IF is_leader_group THEN group_boundary ELSE Len(remaining)

\* the insertion loop putting every block in at `at`, the last one ending up first
RECURSIVE insert_all_at_start(_, _, _)
insert_all_at_start(bs, at, moved) ==
    IF moved = <<>> THEN bs
    ELSE insert_all_at_start(InsertAt(bs, at + 1, Head(moved)), at, Tail(moved))

\* the insertion loop of reorder_and_reflow; `at` counts from 0
RECURSIVE insert_all(_, _, _)
insert_all(bs, at, moved) ==
    IF moved = <<>> THEN bs
    ELSE insert_all(InsertAt(bs, at + 1, Head(moved)), at + 1, Tail(moved))

\* the order reorder_and_reflow gives the blocks before it reflows (leader given and
\* found)
reorder(self, leader_id) ==
    LET leader_idx == index_of(self, leader_id)
        is_leader_chained == self.blocks[leader_idx].chained
        is_moved(b) == IF is_leader_chained THEN b.chained ELSE b.id = leader_id
        moved_group == SelectSeq(self.blocks, is_moved)
        remaining == sort_by_layout(SelectSeq(self.blocks, LAMBDA b : ~is_moved(b)))
        leader_pos == self.blocks[leader_idx].position
        is_leader_group == moved_group[1].is_group
        found == PositionOf(remaining, LAMBDA b : ~b.is_group)
        group_boundary == IF found # 0 THEN found - 1 ELSE Len(remaining)
        insert_idx == find_insert_index(remaining, leader_pos, is_leader_group,
                                        group_boundary)
    IN insert_all(remaining, insert_idx, moved_group)

\* reorder_and_reflow that sorts and reflows when the leader is not found
reorder_and_reflow_sort_on_missing(self, leader_id, inner_width) ==
    IF leader_id # NIL_UUID /\ index_of(self, leader_id) # 0
    THEN reflow([self EXCEPT !.blocks = reorder(self, leader_id)], inner_width)
    ELSE reflow([self EXCEPT !.blocks = sort_by_layout(self.blocks)], inner_width)

\* BlockManager::reorder_and_reflow; leader_id is NIL_UUID for None
reorder_and_reflow(self, leader_id, inner_width) ==
    IF leader_id # NIL_UUID
    THEN IF index_of(self, leader_id) = 0 THEN self
         ELSE reflow([self EXCEPT !.blocks = reorder(self, leader_id)], inner_width)
    ELSE reflow([self EXCEPT !.blocks = sort_by_layout(self.blocks)], inner_width)

\* the packing loop of MaBlocksApp::reflow_blocks (main.rs) over bs[k..]: rows break on
\* the row limit only
RECURSIVE reflow_blocks_pack(_, _, _, _, _)
reflow_blocks_pack(bs, k, cursor, row_height, row_limit) ==
    IF k > Len(bs) THEN bs
    ELSE LET size == outer_size(bs[k])
             wrap == cursor.x + size.x > row_limit
             c == IF wrap
                  THEN Vec2(CANVAS_PADDING, cursor.y + row_height + ALIGN_SPACING)
                  ELSE cursor
             h == IF wrap THEN 0 ELSE row_height
         IN reflow_blocks_pack([bs EXCEPT ![k] = place_at(bs[k], c)], k + 1,
                               Vec2(c.x + size.x + ALIGN_SPACING, c.y), Max(h, size.y),
                               row_limit)

\* MaBlocksApp::reflow_blocks (main.rs); working_inner_width is the argument
reflow_blocks(self, working_inner_width) ==
    LET inner_width == Max(working_inner_width, MIN_CANVAS_INNER_WIDTH)
        row_limit == CANVAS_PADDING + inner_width
        max_image_width == Max(inner_width - BLOCK_PADDING * 2, 1)
        sized == [i \in 1..Len(self.blocks) |->
                    constrain_to_width(reset_to_preferred_size(self.blocks[i]),
                                       max_image_width)]
    IN [self EXCEPT !.blocks =
           reflow_blocks_pack(sized, 1, Vec2(CANVAS_PADDING, CANVAS_PADDING), 0,
                              row_limit)]

\* the comparator of MaBlocksApp::reorder_and_reflow (main.rs): the row, then x; the
\* group/non-group category plays no part
cmp_position(a, b) ==
    LET a_y_q == row_index(a.position.y)
        b_y_q == row_index(b.position.y)
    IN  IF a_y_q < b_y_q THEN "Less"
        ELSE IF a_y_q > b_y_q THEN "Greater"
        ELSE IF a.position.x < b.position.x THEN "Less"
        ELSE IF a.position.x > b.position.x THEN "Greater"
        ELSE "Equal"

\* slice::sort_by with that comparator: a stable sort, here by insertion
RECURSIVE sort_insert_by_position(_, _)
sort_insert_by_position(sorted, b) ==
    IF sorted = <<>> THEN <<b>>
    ELSE IF cmp_position(b, Head(sorted)) = "Less" THEN <<b>> \o sorted
    ELSE <<Head(sorted)>> \o sort_insert_by_position(Tail(sorted), b)

RECURSIVE sort_by_position(_)
sort_by_position(bs) ==
    IF bs = <<>> THEN <<>>
    ELSE sort_insert_by_position(sort_by_position(SubSeq(bs, 1, Len(bs) - 1)), bs[Len(bs)])

\* the order MaBlocksApp::reorder_and_reflow (main.rs) gives the blocks before it
\* reflows (leader given and found): the moved blocks go before the first remaining
\* block that lies after the leader, whatever its category
MaBlocksApp_reorder(self, leader_id) ==
    LET leader_idx == index_of(self, leader_id)
        is_leader_chained == self.blocks[leader_idx].chained
        is_moved(b) == IF is_leader_chained THEN b.chained ELSE b.id = leader_id
        moved_group == SelectSeq(self.blocks, is_moved)
        remaining == sort_by_position(SelectSeq(self.blocks, LAMBDA b : ~is_moved(b)))
        leader_pos == self.blocks[leader_idx].position
        leader_y_q == row_index(leader_pos.y)
        found == PositionOf(remaining,
                            LAMBDA b : \/ leader_y_q < row_index(b.position.y)
                                       \/ /\ leader_y_q = row_index(b.position.y)
                                          /\ leader_pos.x < b.position.x)
        insert_idx == IF found # 0 THEN found - 1 ELSE Len(remaining)
    IN insert_all(remaining, insert_idx, moved_group)

\* MaBlocksApp::reorder_and_reflow (main.rs); leader_id is NIL_UUID for None
MaBlocksApp_reorder_and_reflow(self, leader_id, working_inner_width) ==
    IF leader_id # NIL_UUID
    THEN IF index_of(self, leader_id) = 0 THEN self
         ELSE reflow_blocks([self EXCEPT !.blocks = MaBlocksApp_reorder(self, leader_id)],
                            working_inner_width)
    ELSE reflow_blocks([self EXCEPT !.blocks = sort_by_position(self.blocks)],
                       working_inner_width)

\* the name MaBlocksApp::move_single_block_into_box (main.rs) gives the block that
\* received a child, group or not
name_after_push(b) ==
    IF Len(b.children) > 1
    THEN [b EXCEPT !.group_name = GroupName("Group of", Len(b.children))]
    ELSE IF Len(b.children) = 1
    THEN [b EXCEPT !.group_name = GroupName("Box", file_name(b.children[1].path))]
    ELSE b

\* MaBlocksApp::move_single_block_into_box (main.rs); indexing past the end of the Vec
\* panics
move_single_block_into_box(self, block_idx, box_idx) ==
    LET block == [self.blocks[block_idx] EXCEPT !.is_dragging = FALSE, !.chained = FALSE]
        rest == RemoveAt(self.blocks, block_idx)
        target_box_idx == IF box_idx > block_idx THEN box_idx - 1 ELSE box_idx
    IN  IF target_box_idx > Len(rest)
        THEN [self EXCEPT !.blocks = rest, !.panicked = TRUE]
        ELSE [self EXCEPT !.blocks =
                 [rest EXCEPT ![target_box_idx] =
                     name_after_push([@ EXCEPT !.children = Append(@, block)])]]

\* the loop of MaBlocksApp::drop_block_into_box over the chained ids, in the order of
\* the collection
RECURSIVE drop_each_into_box(_, _, _)
drop_each_into_box(self, ids, box_id) ==
    IF ids = <<>> \/ self.panicked THEN self
    ELSE LET b_idx == index_of(self, Head(ids))
             t_idx == index_of(self, box_id)
         IN  IF b_idx # 0 /\ t_idx # 0
             THEN drop_each_into_box(move_single_block_into_box(self, b_idx, t_idx),
                                     Tail(ids), box_id)
             ELSE drop_each_into_box(self, Tail(ids), box_id)

\* MaBlocksApp::drop_block_into_box (main.rs)
drop_block_into_box(self, block_idx, box_idx) ==
    IF self.blocks[block_idx].chained
    THEN drop_each_into_box(self,
                            [k \in 1..Len(chained_indices(self)) |->
                                self.blocks[chained_indices(self)[k]].id],
                            self.blocks[box_idx].id)
    ELSE move_single_block_into_box(self, block_idx, box_idx)

\* Rect::contains: the point lies in the rect with corner `min` and size `size`
rect_contains(min, size, p) ==
    /\ min.x <= p.x /\ p.x <= min.x + size.x
    /\ min.y <= p.y /\ p.y <= min.y + size.y

\* the drag-stopped branch of MaBlocksApp::update (main.rs) together with the end of
\* the frame: a non-group block released with the pointer (world_mouse) on a group
\* other than itself is dropped into the first such group and the canvas is reflowed;
\* any other block becomes the leader of reorder_and_reflow
drag_stopped(self, index, world_mouse, working_inner_width) ==
    LET released == [self EXCEPT !.blocks[index].is_dragging = FALSE]
        id == self.blocks[index].id
        target_idx == PositionOf(released.blocks,
                                 LAMBDA other : /\ other.id # id
                                                /\ other.is_group
                                                /\ rect_contains(other.position,
                                                                 outer_size(other),
                                                                 world_mouse))
    IN  IF ~self.blocks[index].is_group /\ target_idx # 0
        THEN LET dropped == drop_block_into_box(released, index, target_idx)
             IN IF dropped.panicked THEN dropped
                ELSE reflow_blocks(dropped, working_inner_width)
        ELSE MaBlocksApp_reorder_and_reflow(released, id, working_inner_width)

\* MaBlocksApp::box_group (main.rs): the boxing of BlockManager::box_chained, then
\* reflow_blocks; nothing is done when no block is chained
MaBlocksApp_box_group(self, working_inner_width) ==
    IF chained_indices(self) = <<>> THEN self
    ELSE reflow_blocks(box_chained(self), working_inner_width)

\* MaBlocksApp::unbox_group (main.rs): the unboxing of BlockManager::unbox_group, then
\* reflow_blocks
MaBlocksApp_unbox_group(self, index, working_inner_width) ==
    reflow_blocks(unbox_group(self, index), working_inner_width)

\* the box branch of toggle_compact_group: box_group, its id kept as last_boxed_id
compact_box(self, working_inner_width) ==
    [MaBlocksApp_box_group(self, working_inner_width) EXCEPT
        !.last_boxed_id = box_chained_id(self),
        !.last_unboxed_ids = <<>>]

\* the unbox branch without the record of the child ids
compact_unbox_forget_ids(self, index, working_inner_width) ==
    [MaBlocksApp_unbox_group(self, index, working_inner_width) EXCEPT
        !.last_boxed_id = NIL_UUID]

\* the unbox branch of toggle_compact_group: the child ids kept as last_unboxed_ids,
\* then unbox_group
compact_unbox(self, index, working_inner_width) ==
    [MaBlocksApp_unbox_group(self, index, working_inner_width) EXCEPT
        !.last_unboxed_ids = unbox_group_ids(self, index),
        !.last_boxed_id = NIL_UUID]

\* the blocks whose id is in last_unboxed_ids set chained
rechain_last_unboxed(self) ==
    [self EXCEPT !.blocks =
        [i \in 1..Len(self.blocks) |->
            IF self.blocks[i].id \in Range(self.last_unboxed_ids)
            THEN [self.blocks[i] EXCEPT !.chained = TRUE]
            ELSE self.blocks[i]]]

\* toggle_compact_group boxing whatever is chained, a single chained group too
toggle_compact_group_box_any(self, working_inner_width) ==
    LET chained == chained_indices(self)
        found_any == \E i \in 1..Len(self.blocks) :
                         self.blocks[i].id \in Range(self.last_unboxed_ids)
        last_idx == index_of(self, self.last_boxed_id)
    IN  IF chained = <<>> /\ self.last_unboxed_ids # <<>> /\ found_any
        THEN compact_box(rechain_last_unboxed(self), working_inner_width)
        ELSE IF /\ chained = <<>> /\ self.last_unboxed_ids = <<>>
                /\ self.last_boxed_id # NIL_UUID /\ last_idx # 0
        THEN compact_unbox(self, last_idx, working_inner_width)
        ELSE IF chained # <<>>
        THEN compact_box(self, working_inner_width)
        ELSE self

\* MaBlocksApp::toggle_compact_group (main.rs)
toggle_compact_group(self, working_inner_width) ==
    LET chained == chained_indices(self)
        found_any == \E i \in 1..Len(self.blocks) :
                         self.blocks[i].id \in Range(self.last_unboxed_ids)
        last_idx == index_of(self, self.last_boxed_id)
    IN  IF chained = <<>> /\ self.last_unboxed_ids # <<>> /\ found_any
        THEN compact_box(rechain_last_unboxed(self), working_inner_width)
        ELSE IF /\ chained = <<>> /\ self.last_unboxed_ids = <<>>
                /\ self.last_boxed_id # NIL_UUID /\ last_idx # 0
        THEN compact_unbox(self, last_idx, working_inner_width)
        ELSE IF Len(chained) = 1 /\ self.blocks[chained[1]].is_group
        THEN compact_unbox(self, chained[1], working_inner_width)
        ELSE IF chained # <<>>
        THEN compact_box(self, working_inner_width)
        ELSE self

\* mutant: only the dragged block moves
drag_step_leader_only(self, index, delta) ==
    [self EXCEPT !.blocks[index].position =
        Vec2(self.blocks[index].position.x + delta.x,
             self.blocks[index].position.y + delta.y)]
\* the drag step of MaBlocksApp::update (main.rs): the pointer has moved the dragged
\* block by `delta`; the chained blocks follow a chained leader
drag_step(self, index, delta) ==
    LET old_pos == self.blocks[index].position
        new_pos == Vec2(old_pos.x + delta.x, old_pos.y + delta.y)
        is_chained == self.blocks[index].chained
        leader_id == self.blocks[index].id
    IN [self EXCEPT !.blocks =
          [i \in 1..Len(self.blocks) |->
             IF i = index THEN [self.blocks[i] EXCEPT !.position = new_pos]
             ELSE IF is_chained /\ self.blocks[i].chained /\ self.blocks[i].id # leader_id
             THEN [self.blocks[i] EXCEPT
                      !.position = Vec2(self.blocks[i].position.x + (new_pos.x - old_pos.x),
                                        self.blocks[i].position.y + (new_pos.y - old_pos.y))]
             ELSE self.blocks[i]]]

\* ---------------------------------------------------------------------------
\* Resizing (src/src/block.rs handle_blocks_resizing) and image scaling (main.rs)
\* ---------------------------------------------------------------------------
\* f32 values: an integer, or one of two codes no size or delta of the model reaches,
\* for NaN and for an infinity (the sign is dropped: every infinity goes through abs())
F_NAN == -1000000
F_INF == 1000000

\* f32::is_finite
is_finite(x) == x # F_NAN /\ x # F_INF
\* f32::abs
fabs(x) == IF is_finite(x) THEN (IF x >= 0 THEN x ELSE -x) ELSE x
\* f32 addition of a finite value and a value that may be NaN or infinite
fadd(a, x) == IF is_finite(x) THEN a + x ELSE x
\* f32 multiplication of the finite positive `a` and a value that may be NaN or infinite
fmul(a, x) == IF is_finite(x) THEN a * x ELSE x
\* f32::max: a NaN operand yields the other operand
fmax(x, m) == IF x = F_NAN THEN m ELSE IF x = F_INF THEN F_INF ELSE Max(x, m)
\* the comparison >= of values that may be NaN or infinite: false with a NaN operand
fge(a, b) ==
    IF a = F_NAN \/ b = F_NAN THEN FALSE
    ELSE IF a = F_INF THEN TRUE
    ELSE IF b = F_INF THEN FALSE
    ELSE a >= b

\* x * aspect_ratio and x / aspect_ratio for the ratio n / d
times_aspect(x, r) == IF is_finite(x) THEN (x * r.n) \div r.d ELSE x
over_aspect(x, r) == (x * r.d) \div r.n

\* ImageBlock::set_preferred_size
set_preferred_size(b, size) == [b EXCEPT !.preferred_image_size = size, !.image_size = size]

\* Rect::from_center_size(rect.center(), new_outer).min for the rect with corner `min`
\* and size `outer`
recentered_min(min, outer, new_outer) ==
    Vec2(min.x + (outer.x - new_outer.x) \div 2, min.y + (outer.y - new_outer.y) \div 2)

\* the x_sign and y_sign of a resize handle
x_sign(handle) == IF handle \in {"TopLeft", "BottomLeft"} THEN -1 ELSE 1
y_sign(handle) == IF handle \in {"TopLeft", "TopRight"} THEN -1 ELSE 1

\* the target width of handle_blocks_resizing before the minimum is applied:
\* 2 * |half_width * x_sign + delta.x| when the x axis drives the resize, else
\* 2 * |half_height * y_sign + delta.y| * aspect_ratio
resize_target_width(b, state, delta_world) ==
    LET initial_image_width == state.initial_block_rect.size.x - BLOCK_PADDING * 2
        initial_image_height == state.initial_block_rect.size.y - BLOCK_PADDING * 2
        from_x == fabs(fadd(initial_image_width * x_sign(state.handle),
                            fmul(2, delta_world.x)))
        height_from_y == fabs(fadd(initial_image_height * y_sign(state.handle),
                                   fmul(2, delta_world.y)))
        from_y == times_aspect(height_from_y, b.aspect_ratio)
    IN IF fge(fabs(delta_world.x), fabs(delta_world.y)) THEN from_x ELSE from_y

\* new_width with a NaN or infinite width leaving the block as wide as it is
resize_new_width_keep_on_invalid(b, state, delta_world) ==
    LET chosen == fmax(resize_target_width(b, state, delta_world), MIN_BLOCK_SIZE)
    IN Max(IF ~is_finite(chosen) THEN b.image_size.x ELSE chosen, MIN_BLOCK_SIZE)

\* new_width of handle_blocks_resizing
resize_new_width(b, state, delta_world) ==
    LET chosen == fmax(resize_target_width(b, state, delta_world), MIN_BLOCK_SIZE)
    IN Max(IF ~is_finite(chosen) THEN MIN_BLOCK_SIZE ELSE chosen, MIN_BLOCK_SIZE)

\* the chained block `b` keeping its own size
resize_chained_keep_size(b, new_height) == b

\* the chained block `b` resized to the height of the leader
resize_chained(b, new_height) ==
    LET chained_width == Max(times_aspect(new_height, b.aspect_ratio), MIN_BLOCK_SIZE)
        chained_size == Vec2(chained_width, new_height)
        chained_outer_size == Vec2(chained_width + BLOCK_PADDING * 2,
                                   new_height + BLOCK_PADDING * 2)
    IN set_preferred_size(
           [b EXCEPT !.position = recentered_min(b.position, outer_size(b),
                                                 chained_outer_size)],
           chained_size)

\* handle_blocks_resizing on the top-level blocks `bs`; state is the InteractionState
\* (id, handle, initial_block_rect), delta_world is
\* (curr_mouse_pos - initial_mouse_pos) / zoom
handle_blocks_resizing(bs, state, delta_world) ==
    LET idx == PositionOf(bs, LAMBDA b : b.id = state.id) IN
    IF idx = 0 THEN bs
    ELSE LET new_width == resize_new_width(bs[idx], state, delta_world)
             new_height == over_aspect(new_width, bs[idx].aspect_ratio)
             new_size == Vec2(new_width, new_height)
             new_outer_size == Vec2(new_width + BLOCK_PADDING * 2,
                                    new_height + BLOCK_PADDING * 2)
             leader == set_preferred_size(
                           [bs[idx] EXCEPT !.position =
                               recentered_min(state.initial_block_rect.min,
                                              state.initial_block_rect.size,
                                              new_outer_size)],
                           new_size)
             count == Len(SelectSeq(bs, LAMBDA b : b.chained))
         IN [i \in 1..Len(bs) |->
               IF i = idx THEN leader
               ELSE IF bs[idx].chained /\ count > 1 /\ bs[i].chained
               THEN resize_chained(bs[i], new_height)
               ELSE bs[i]]

\* scaled_size (main.rs): the decoded size scaled down to MAX_BLOCK_DIMENSION
scaled_size(original) ==
    LET mx == Max(original.x, 1)
        my == Max(original.y, 1)
    IN  IF mx <= MAX_BLOCK_DIMENSION /\ my <= MAX_BLOCK_DIMENSION THEN original
        ELSE IF mx >= my
        THEN Vec2((original.x * MAX_BLOCK_DIMENSION) \div mx,
                  (original.y * MAX_BLOCK_DIMENSION) \div mx)
        ELSE Vec2((original.x * MAX_BLOCK_DIMENSION) \div my,
                  (original.y * MAX_BLOCK_DIMENSION) \div my)

\* ---------------------------------------------------------------------------
\* Animation playback and the frame cache
\* ---------------------------------------------------------------------------
\* the number of frames the decoder yields for the image of block `id`: 2 or 3
FullFrames(id) == 2 + (id % 2)

\* ImageBlock::toggle_animation
toggle_animation(b) ==
    IF b.frames <= 1 THEN b
    ELSE IF b.animation_enabled THEN stop_animation(b)
    ELSE [b EXCEPT !.animation_enabled = TRUE]

\* mutant: the frame index advances without wrapping
update_animation_no_wrap(b) ==
    IF ~b.animation_enabled \/ b.frames <= 1 THEN b
    ELSE [b EXCEPT !.current_frame = b.current_frame + 1]

\* ImageBlock::update_animation with dt equal to the duration of the current frame
update_animation(b) ==
    IF ~b.animation_enabled \/ b.frames <= 1 THEN b
    ELSE [b EXCEPT !.current_frame = (b.current_frame + 1) % b.frames]

\* the result of a full decoding requested for a skeleton block: all frames are
\* retained (spec 4.5, "a block must re-request full decoding before it can animate")
load_full_sequence(b) ==
    IF b.is_full_sequence THEN b
    ELSE [b EXCEPT !.frames = FullFrames(b.id), !.is_full_sequence = TRUE]

\* activation of the animation of the top-level block at `index`: full decoding if the
\* block is a skeleton, playback switched on, and the frame cache consulted (spec 3,
\* "the Frame Cache Policy is consulted whenever a block's animation is activated")
activate_animation(self, index) ==
    LET b == toggle_animation(load_full_sequence(self.blocks[index]))
    IN mark_animation_used([self EXCEPT !.blocks[index] = b], b.id)

\* the number of blocks, nested ones included, that hold a full multi-frame sequence
RECURSIVE full_sequence_count(_)
full_sequence_count(bs) ==
    IF bs = <<>> THEN 0
    ELSE (IF Head(bs).is_full_sequence /\ Head(bs).frames > 1 THEN 1 ELSE 0)
         + full_sequence_count(Head(bs).children)
         + full_sequence_count(Tail(bs))

\* ---------------------------------------------------------------------------
\* State machine
\* ---------------------------------------------------------------------------
Self ==
    [ blocks |-> blocks,
      next_block_id |-> next_block_id,
      remembered_chains |-> remembered_chains,
      animation_access_order |-> animation_access_order,
      panicked |-> panicked,
      last_unboxed_ids |-> last_unboxed_ids,
      last_boxed_id |-> last_boxed_id ]

\* the fields of the manager after a call
CommitFields(self) ==
    /\ blocks' = self.blocks
    /\ next_block_id' = self.next_block_id
    /\ remembered_chains' = self.remembered_chains
    /\ animation_access_order' = self.animation_access_order
    /\ panicked' = self.panicked
    /\ last_unboxed_ids' = self.last_unboxed_ids
    /\ last_boxed_id' = self.last_boxed_id

\* a call that leaves the resize gesture as it is
Commit(self) ==
    /\ CommitFields(self)
    /\ UNCHANGED resizing_state

\* the history record: operation, two integer arguments, a set of ids, and `cleared`:
\* the chained set (of 2 or more) that the latest clear_chain_group cleared, as long as
\* only removals followed it
OpC(op, a, b, ids, cleared) ==
    [op |-> op, a |-> a, b |-> b, c |-> 0, ids |-> ids, cleared |-> cleared]
Op(op, a, b, ids) == OpC(op, a, b, ids, {})
\* an operation with three integer arguments
Op3(op, a, b, c) == [OpC(op, a, b, {}, {}) EXCEPT !.c = c]

\* mark_run is the sequence of the ids marked by consecutive calls of
\* mark_animation_used, each on a top-level block that holds its full sequence and was
\* not marked before in the run, starting with an empty access order.  Only pushes may
\* come between the calls; any other operation ends the run for good.
Broken == <<NIL_UUID>>
BreakRun == mark_run' = Broken

Indices == 1..Len(blocks)

\* the ids of the top-level blocks
TopIds == {blocks[i].id : i \in Indices}

\* the top-level block with the given id
BlockOf(id) == blocks[CHOOSE i \in Indices : blocks[i].id = id]

\* the ids of the currently chained top-level blocks, read off the state
ChainedNow == {blocks[i].id : i \in {j \in Indices : blocks[j].chained}}

\* insert_block_from_path (main.rs): create the block with every frame the decoder
\* returned, advance the id counter, place the block at the canvas origin and push it
insert_block(self, image_size, frames) ==
    LET block == [ImageBlock_new(fresh_uuid(self), image_size, frames, TRUE)
                     EXCEPT !.position = Vec2(CANVAS_PADDING, CANVAS_PADDING)]
    IN push([self EXCEPT !.next_block_id = self.next_block_id + 1], block)

\* MaBlocksApp::load_images (main.rs) with one path picked: insert_block_from_path, then
\* reflow_blocks
load_images(self, image_size, frames, working_inner_width) ==
    reflow_blocks(insert_block(self, image_size, frames), working_inner_width)

\* the block of an animation created from its first frame alone: the decoder was asked
\* for the first frame only (image_loader.rs, first_frame_only) and ImageBlock::new is
\* given is_full_sequence = false; the block is where ImageBlock::new puts it
skeleton_block(id) == ImageBlock_new(id, Vec2(100, 100), 1, FALSE)

\* a caller of the manager takes the next block id and pushes the skeleton of an
\* animation (allocate_block_id, ImageBlock::new, push); nothing is laid out
push_skeleton(self) == push(allocate_block_id(self), skeleton_block(fresh_uuid(self)))

\* the image file a path of a session names (load_image_frames and scaled_size): the
\* decoded size and the number of frames; the file of path 2 is an animation
session_image(path) ==
    [image_size |-> Vec2(100, 100), frames |-> IF path = 2 THEN 3 ELSE 1]

\* Uuid::parse_str(s).ok() over the strings of a saved chain; a string that is no uuid
\* is a negative number
parse_chain(chain) == {chain[k] : k \in {j \in 1..Len(chain) : chain[j] >= 0}}

\* MaBlocksApp::data_to_block (main.rs): the app after the call and the block made, if
\* any (every non-empty path of a session names a file that loads).  A group is made of
\* the blocks made of its children and advances the id counter once; an image goes
\* through insert_block_from_path and is popped again.  Id, position, size and chained
\* flag come from the data, the counter and the animation flag for images only.
RECURSIVE data_to_block(_, _)
RECURSIVE data_to_block_each(_, _)
data_to_block_each(self, datas) ==
    IF datas = <<>> THEN [app |-> self, made |-> <<>>]
    ELSE LET first == data_to_block(self, Head(datas))
             rest == data_to_block_each(first.app, Tail(datas))
         IN [app |-> rest.app, made |-> first.made \o rest.made]

data_to_block(self, data) ==
    IF data.is_group
    THEN LET children == data_to_block_each(self, data.children)
             group == [ImageBlock_new_group(data.id, children.made)
                          EXCEPT !.group_name = data.group_name,
                                 !.position = data.position]
         IN [app |-> [children.app EXCEPT !.next_block_id = @ + 1],
             made |-> <<[set_preferred_size(group, data.size)
                            EXCEPT !.chained = data.chained]>>]
    ELSE IF data.path = NO_PATH THEN [app |-> self, made |-> <<>>]
    ELSE LET file == session_image(data.path)
             inserted == insert_block(self, file.image_size, file.frames)
             popped == inserted.blocks[Len(inserted.blocks)]
             block == [popped EXCEPT !.id = data.id, !.path = data.path,
                                     !.position = data.position]
         IN [app |-> [inserted EXCEPT
                         !.blocks = SubSeq(inserted.blocks, 1, Len(inserted.blocks) - 1)],
             made |-> <<[set_preferred_size(block, data.size)
                            EXCEPT !.chained = data.chained,
                                   !.counter = data.counter,
                                   !.animation_enabled =
                                       data.animation_enabled /\ popped.frames > 1]>>]

\* the loop of load_session over the blocks of the file: each block made is pushed
RECURSIVE load_session_blocks(_, _)
load_session_blocks(self, datas) ==
    IF datas = <<>> THEN self
    ELSE LET first == data_to_block(self, Head(datas))
         IN load_session_blocks(
                [first.app EXCEPT !.blocks = first.app.blocks \o first.made],
                Tail(datas))

\* MaBlocksApp::load_session (main.rs) with a file picked and parsed: the blocks are
\* cleared and made anew from the file, the remembered chains are replaced by the
\* chains of the file that parse to two ids or more, and the canvas is reflowed
load_session(self, session, working_inner_width) ==
    LET loaded == load_session_blocks([self EXCEPT !.blocks = <<>>], session.blocks)
        chains == [k \in 1..Len(session.remembered_chains) |->
                      parse_chain(session.remembered_chains[k])]
    IN reflow_blocks(
           [loaded EXCEPT !.remembered_chains =
               SelectSeq(chains, LAMBDA chain : Cardinality(chain) >= 2)],
           working_inner_width)

\* the manager is `self`
StartFrom(self) ==
    /\ blocks = self.blocks
    /\ next_block_id = self.next_block_id
    /\ remembered_chains = self.remembered_chains
    /\ animation_access_order = self.animation_access_order
    /\ panicked = self.panicked
    /\ last_unboxed_ids = self.last_unboxed_ids
    /\ last_boxed_id = self.last_boxed_id
    /\ resizing_state = <<>>

Init ==
    /\ StartFrom(BlockManager_new)
    /\ last = Op("new", 0, 0, {})
    /\ mark_run = <<>>

\* a static image is loaded, pushed and the canvas reflowed, while fewer than `limit`
\* blocks were created
PushUpTo(limit, size, w) ==
    /\ ~panicked
    /\ next_block_id < limit
    /\ Commit(load_images(Self, size, 1, w))
    /\ last' = Op("push", next_block_id + 1, 0, {})
    /\ UNCHANGED mark_run

\* an animated image is loaded with every decoded frame, pushed and the canvas reflowed,
\* while fewer than `limit` blocks were created (main.rs)
LoadAnimationUpTo(limit, w) ==
    /\ ~panicked
    /\ next_block_id < limit
    /\ Commit(load_images(Self, Vec2(100, 100), FullFrames(next_block_id + 1), w))
    /\ last' = Op("load_animation", next_block_id + 1, 0, {})
    /\ UNCHANGED mark_run

ToggleChain(i) ==
    /\ ~panicked
    /\ Commit(toggle_chain(Self, i))
    /\ last' = OpC("toggle_chain", blocks[i].id, 0, ChainedNow,
                   IF last.op \in {"clear_chain_group", "remove_cascade"}
                   THEN last.cleared ELSE {})
    /\ BreakRun

ClearChainGroup ==
    /\ ~panicked
    /\ Commit(clear_chain_group(Self))
    /\ last' = OpC("clear_chain_group", 0, 0, ChainedNow,
                   IF Cardinality(ChainedNow) >= 2 THEN ChainedNow ELSE {})
    /\ BreakRun

BoxChainedUpTo(limit) ==
    /\ ~panicked
    /\ next_block_id < limit
    /\ Commit(box_chained(Self))
    /\ last' = Op("box_chained", box_chained_id(Self), 0, ChainedNow)
    /\ BreakRun

\* the callers unbox groups only (main.rs toggle_compact_group)
UnboxGroup(i) ==
    /\ ~panicked
    /\ blocks[i].is_group
    /\ Commit(unbox_group(Self, i))
    /\ last' = Op("unbox_group", blocks[i].id,
                  IF last.op = "box_chained" /\ last.a = blocks[i].id THEN 1 ELSE 0,
                  Range(unbox_group_ids(Self, i)))
    /\ BreakRun

\* the drag-release handler (main.rs) drops a non-group block on a group other than
\* the dropped block
DropIntoGroup(i, g) ==
    /\ ~panicked
    /\ i # g
    /\ ~blocks[i].is_group
    /\ blocks[g].is_group
    \* chained_ids() is collected only in the chained branch
    /\ \E order \in (IF blocks[i].chained THEN Orders(ChainedNow) ELSE {<<>>}) :
           Commit(drop_into_group(Self, i, g, order))
    /\ last' = Op("drop_into_group", blocks[i].id, blocks[g].id, ChainedNow)
    /\ BreakRun

RemoveCascade(i) ==
    /\ ~panicked
    /\ Commit(remove_cascade(Self, i))
    /\ last' = OpC("remove_cascade", blocks[i].id,
                   Cardinality((Range(remove_cascade_ids(Self, i)) \ TopIds)
                               \cap Range(animation_access_order)),
                   Range(remove_cascade_ids(Self, i)),
                   IF last.op \in {"clear_chain_group", "remove_cascade"}
                   THEN last.cleared ELSE {})
    /\ BreakRun

Next ==
    \/ PushUpTo(MaxBlocks, Vec2(100, 100), CANVAS_WORKING_WIDTH)
    \/ \E i \in Indices : ToggleChain(i)
    \/ ClearChainGroup
    \/ BoxChainedUpTo(MaxBlocks)
    \/ \E i \in Indices : UnboxGroup(i)
    \/ \E i \in Indices : \E g \in Indices : DropIntoGroup(i, g)
    \/ \E i \in Indices : RemoveCascade(i)

Spec == Init /\ [][Next]_vars

\* ---------------------------------------------------------------------------
\* Layout specification: pushes, chains, boxes, drags and their release, reflow and
\* reorder
\* ---------------------------------------------------------------------------
\* decoded image size after scaled_size (main.rs)
LayoutSizes == {Vec2(200, 100)}
\* inner widths handed to reflow; the first is below MIN_CANVAS_INNER_WIDTH
LayoutWidths == {20, 500}
\* pointer movements of one drag step
DragDeltas == {Vec2(0, 150), Vec2(200, 0)}

InCanvas(pos) ==
    /\ -MaxCoord <= pos.x /\ pos.x <= MaxCoord
    /\ -MaxCoord <= pos.y /\ pos.y <= MaxCoord

\* drag started on a block (main.rs)
DragStart(i) ==
    /\ ~panicked
    /\ \A j \in Indices : ~blocks[j].is_dragging
    /\ blocks' = [blocks EXCEPT ![i].is_dragging = TRUE]
    /\ last' = Op("drag_start", blocks[i].id, 0, {})
    /\ UNCHANGED <<next_block_id, remembered_chains, animation_access_order, panicked,
                   last_unboxed_ids, last_boxed_id, resizing_state>>
    /\ BreakRun

\* one drag step of the dragged block (main.rs)
DragMove(i, delta) ==
    /\ ~panicked
    /\ blocks[i].is_dragging
    /\ \A j \in Indices : InCanvas(drag_step(Self, i, delta).blocks[j].position)
    /\ Commit(drag_step(Self, i, delta))
    /\ last' = Op3("drag_step", blocks[i].id, delta.x, delta.y)
    /\ BreakRun

\* where the pointer holds a dragged block: at the corner or at the centre of its rect
GrabPoints(b) ==
    {Vec2(b.position.x, b.position.y),
     Vec2(b.position.x + outer_size(b).x \div 2, b.position.y + outer_size(b).y \div 2)}

\* the frame in which the drag of the block at i stops (main.rs), the pointer being at
\* world_mouse and the working width w: the block is dropped into the group under the
\* pointer, or leads a reorder; the history holds the ids chained before the frame
DragStop(i, world_mouse, w) ==
    /\ ~panicked
    /\ blocks[i].is_dragging
    /\ Commit(drag_stopped(Self, i, world_mouse, w))
    /\ last' = Op("drag_stopped", blocks[i].id,
                  IF Len(drag_stopped(Self, i, world_mouse, w).blocks) < Len(blocks)
                  THEN 1 ELSE 0,
                  ChainedNow)
    /\ BreakRun

Reflow(w) ==
    /\ ~panicked
    /\ Commit(reflow(Self, w))
    /\ last' = Op3("reflow", w, 0, 0)
    /\ BreakRun

\* reorder_and_reflow with no leader (NIL_UUID), a leader of the collection, or an id
\* that is not in the collection (next_block_id + 1 has not been given out yet)
ReorderAndReflow(leader_id, w) ==
    /\ ~panicked
    /\ Commit(reorder_and_reflow(Self, leader_id, w))
    /\ last' = Op3("reorder_and_reflow", w, leader_id, 0)
    /\ BreakRun

LayoutNext ==
    \/ \E size \in LayoutSizes : \E w \in LayoutWidths : PushUpTo(MaxLayoutBlocks, size, w)
    \/ \E i \in Indices : ToggleChain(i)
    \/ BoxChainedUpTo(MaxLayoutBlocks)
    \/ \E i \in Indices : UnboxGroup(i)
    \/ \E i \in Indices : DragStart(i)
    \/ \E i \in Indices : \E delta \in DragDeltas : DragMove(i, delta)
    \/ \E i \in Indices : \E world_mouse \in GrabPoints(blocks[i]) :
           \E w \in LayoutWidths : DragStop(i, world_mouse, w)
    \/ \E w \in LayoutWidths : Reflow(w)
    \/ \E leader_id \in TopIds \cup {NIL_UUID, next_block_id + 1} :
           \E w \in LayoutWidths : ReorderAndReflow(leader_id, w)

SpecLayout == Init /\ [][LayoutNext]_vars

\* ---------------------------------------------------------------------------
\* Order specification: the operations that build and reorder the top-level collection,
\* from an empty manager, with images of one size on a canvas of one width; the
\* collection is reflowed at the end of every reorder_and_reflow
\* ---------------------------------------------------------------------------
OrderWidths == {500}

OrderNext ==
    \/ \E w \in OrderWidths : PushUpTo(MaxOrderBlocks, Vec2(100, 100), w)
    \/ \E i \in Indices : ToggleChain(i)
    \/ BoxChainedUpTo(MaxOrderBlocks)
    \/ \E i \in Indices : UnboxGroup(i)
    \/ \E leader_id \in TopIds \cup {NIL_UUID} :
           \E w \in OrderWidths : ReorderAndReflow(leader_id, w)

SpecOrder == Init /\ [][OrderNext]_vars

\* ---------------------------------------------------------------------------
\* Reflow specification: reflow applied to every collection of up to MaxReflowBlocks
\* blocks, in any order of groups and images
\* ---------------------------------------------------------------------------
ReflowKinds == {"group", "wide", "small"}
\* inner widths handed to reflow; the first is below MIN_CANVAS_INNER_WIDTH, the second
\* narrower than the wide image and the group, the third holds the wide image and one
\* small image in a row
ReflowWidths == {20, 108, 300, 500}

\* a block of the collection: a group of one image, an image of 200 x 100 or one of
\* MIN_BLOCK_SIZE x MIN_BLOCK_SIZE
ReflowBlock(kind, id) ==
    IF kind = "group"
    THEN update_group_name(
             ImageBlock_new_group(id, <<ImageBlock_new(id + MaxReflowBlocks,
                                                       Vec2(100, 100), 1, TRUE)>>))
    ELSE IF kind = "wide" THEN ImageBlock_new(id, Vec2(200, 100), 1, TRUE)
    ELSE ImageBlock_new(id, Vec2(MIN_BLOCK_SIZE, MIN_BLOCK_SIZE), 1, TRUE)

ReflowCollections == UNION {[1..n -> ReflowKinds] : n \in 0..MaxReflowBlocks}

ReflowInit ==
    /\ \E kinds \in ReflowCollections :
           StartFrom([BlockManager_new EXCEPT
                         !.blocks = [i \in 1..Len(kinds) |-> ReflowBlock(kinds[i], i)],
                         !.next_block_id = 2 * MaxReflowBlocks])
    /\ last = Op("new", 0, 0, {})
    /\ mark_run = <<>>

ReflowNext == \E w \in ReflowWidths : Reflow(w)

SpecReflow == ReflowInit /\ [][ReflowNext]_vars

\* ---------------------------------------------------------------------------
\* Cache specification: a session in which WarmBlocks animations were pushed, activated
\* and advanced by one frame, one after the other; then the operations on the oldest
\* block and on the blocks created from then on
\* ---------------------------------------------------------------------------
WarmBlocks == MAX_CACHED_ANIMATIONS - 1

RECURSIVE warm(_)
warm(n) ==
    IF n = 0 THEN BlockManager_new
    ELSE LET before == warm(n - 1) IN
         \* the session so far has given out the ids 1 .. n - 1
         IF before.next_block_id # n - 1 THEN before
         ELSE LET pushed == push_skeleton(before)
                  active == activate_animation(pushed, n)
              IN [active EXCEPT !.blocks[n] = update_animation(active.blocks[n])]

CacheInit ==
    /\ StartFrom(warm(WarmBlocks))
    /\ last = Op("new", 0, 0, {})
    /\ mark_run = [i \in 1..WarmBlocks |-> i]

\* the indices of the top-level blocks the cache specification operates on
CacheIndices == {i \in Indices : blocks[i].id = 1 \/ blocks[i].id > WarmBlocks}

\* the skeleton (first frame only) of an animated image is pushed
PushSkeletonUpTo(limit) ==
    /\ ~panicked
    /\ next_block_id < limit
    /\ Commit(push_skeleton(Self))
    /\ last' = Op("push", next_block_id + 1, 0, {})
    /\ UNCHANGED mark_run

\* the run after mark_animation_used(id)
RunAfterMark(id) ==
    IF /\ mark_run # Broken
       /\ id \notin Range(mark_run)
       /\ \E i \in Indices : /\ blocks'[i].id = id
                             /\ blocks'[i].is_full_sequence
                             /\ blocks'[i].frames > 1
    THEN Append(mark_run, id)
    ELSE Broken

ActivateAnimation(i) ==
    /\ ~panicked
    /\ ~blocks[i].is_group
    /\ ~blocks[i].animation_enabled
    /\ Commit(activate_animation(Self, i))
    /\ last' = Op("mark_animation_used", blocks[i].id, 1, {})
    /\ mark_run' = RunAfterMark(blocks[i].id)

MarkAnimationUsed(id) ==
    /\ ~panicked
    /\ Commit(mark_animation_used(Self, id))
    /\ last' = Op("mark_animation_used", id, 0, {})
    /\ mark_run' = RunAfterMark(id)

Remove(i) ==
    /\ ~panicked
    /\ Commit(remove(Self, i))
    /\ last' = Op("remove", blocks[i].id, 0, {blocks[i].id})
    /\ BreakRun

\* one frame duration passes for a block (MaBlocksApp::advance_animations)
UpdateAnimation(i) ==
    /\ ~panicked
    /\ blocks[i].animation_enabled
    /\ blocks' = [blocks EXCEPT ![i] = update_animation(blocks[i])]
    /\ last' = Op("update_animation", blocks[i].id, 0, {})
    /\ UNCHANGED <<next_block_id, remembered_chains, animation_access_order, panicked,
                   last_unboxed_ids, last_boxed_id, resizing_state, mark_run>>

CacheNext ==
    \/ PushSkeletonUpTo(WarmBlocks + MaxCachePush)
    \/ \E i \in CacheIndices : ActivateAnimation(i)
    \/ \E i \in CacheIndices : MarkAnimationUsed(blocks[i].id)
    \/ \E i \in CacheIndices : Remove(i)
    \/ \E i \in CacheIndices : ToggleChain(i)
    \/ BoxChainedUpTo(WarmBlocks + MaxCachePush)
    \/ \E i \in CacheIndices : UnboxGroup(i)
    \/ \E i \in CacheIndices : \E g \in CacheIndices : DropIntoGroup(i, g)

SpecCache == CacheInit /\ [][CacheNext]_vars

\* ---------------------------------------------------------------------------
\* LRU specification: the same session, continued by pushes, playback, marks and
\* removals only
\* ---------------------------------------------------------------------------
LruNext ==
    \/ PushSkeletonUpTo(WarmBlocks + MaxLruPush)
    \/ \E i \in CacheIndices : ActivateAnimation(i)
    \/ \E i \in CacheIndices : UpdateAnimation(i)
    \/ \E i \in CacheIndices : MarkAnimationUsed(blocks[i].id)
    \/ \E i \in CacheIndices : Remove(i)

SpecLru == CacheInit /\ [][LruNext]_vars

\* ---------------------------------------------------------------------------
\* Operations specification: box and unbox applied to every collection of up to
\* MaxOpsBlocks blocks, each a group of two images or an image, chained or not, at one of
\* two positions
\* ---------------------------------------------------------------------------
OpsKinds == {"image", "group"}
OpsPositions == {Vec2(224, 32), Vec2(32, 224)}

\* a block of a drawn collection of at most `max` blocks; the children of the group at
\* index id have the ids id + max and id + 2 * max
OpsBlock(kind, id, chained, position, max) ==
    LET b == IF kind = "group"
             THEN update_group_name(ImageBlock_new_group(id,
                      <<ImageBlock_new(id + max, Vec2(100, 100), 1, TRUE),
                        ImageBlock_new(id + 2 * max, Vec2(100, 100), 1, TRUE)>>))
             ELSE ImageBlock_new(id, Vec2(100, 100), 1, TRUE)
    IN [b EXCEPT !.chained = chained, !.position = position]

\* the manager holds a collection of at most `max` blocks at positions of `positions`
DrawnCollection(max, positions) ==
    /\ \E n \in 0..max :
         \E kinds \in [1..n -> OpsKinds] :
           \E ch \in [1..n -> BOOLEAN] :
             \E pos \in [1..n -> positions] :
               StartFrom([BlockManager_new EXCEPT
                   !.blocks = [i \in 1..n |-> OpsBlock(kinds[i], i, ch[i], pos[i], max)],
                   !.next_block_id = 3 * max])
    /\ last = Op("new", 0, 0, {})
    /\ mark_run = Broken

OpsInit == DrawnCollection(MaxOpsBlocks, OpsPositions)

OpsNext ==
    \/ BoxChainedUpTo(3 * MaxOpsBlocks + 1)
    \/ \E i \in Indices : UnboxGroup(i)

SpecOps == OpsInit /\ [][OpsNext]_vars

\* ---------------------------------------------------------------------------
\* Reorder specification: reorder_and_reflow applied, with every block as the leader, to
\* every collection of up to MaxReorderBlocks blocks at one of three positions (two in
\* the first row, one in a later row), and to the collections that result
\* ---------------------------------------------------------------------------
ReorderPositions == {Vec2(32, 32), Vec2(224, 32), Vec2(32, 224)}
ReorderWidths == {500}

ReorderInit == DrawnCollection(MaxReorderBlocks, ReorderPositions)

\* the leader ids of a reorder: the id of a top-level block, None, the id of a block that
\* is a child of a group or was never created
ReorderLeaders == TopIds \cup {NIL_UUID, MaxReorderBlocks + 1, next_block_id + 1}

ReorderNext ==
    \E leader_id \in ReorderLeaders : \E w \in ReorderWidths : ReorderAndReflow(leader_id, w)

SpecReorder == ReorderInit /\ [][ReorderNext]_vars

\* ---------------------------------------------------------------------------
\* Resize specification: images of several decoded sizes are pushed, chained, resized by
\* a handle
\* ---------------------------------------------------------------------------
\* decoded sizes: a square, an image below MIN_BLOCK_SIZE and a tall one above
\* MAX_BLOCK_DIMENSION
DecodedSizes == {Vec2(100, 100), Vec2(20, 20), Vec2(840, 1680)}
\* delta_world of a resize step; with zoom = 0 the division yields NaN or an infinity
ResizeDeltas == {Vec2(-20, 0), Vec2(0, 40),
                 Vec2(0, F_NAN), Vec2(F_INF, 0)}

\* the rect of a block: its corner and its outer size
rect(b) == [min |-> b.position, size |-> outer_size(b)]

\* f32 values of the button hit areas.  The rects of the buttons are not on whole
\* coordinates, so their edges are computed in f32 as the code computes them.  An f32 is
\* kept as whole + ticks / F32_TICK with 0 <= ticks < F32_TICK; a tick is 2^-26, which
\* every value computed here is a multiple of.
F32_TICK == 2 ^ 26
f32(whole, ticks) ==
    [whole |-> whole + (ticks \div F32_TICK), ticks |-> ticks % F32_TICK]
f32_of(n) == [whole |-> n, ticks |-> 0]

\* F(x), with x computed once
Bind(x, F(_)) == CHOOSE r \in {F(v) : v \in {x}} : TRUE

RECURSIVE ilog2(_)
ilog2(n) == IF n < 2 THEN 0 ELSE 1 + ilog2(n \div 2)

\* the distance of neighbouring f32 values at v, in ticks: 2^(exponent - 23) for the
\* binary exponent of |v| and the 24 bit significand of an f32; where it is below a
\* tick every value here is exact
f32_ulp(v) ==
    LET whole == IF v.whole >= 0 THEN v.whole
                 ELSE IF v.ticks = 0 THEN -v.whole ELSE -v.whole - 1
        ticks == IF v.whole >= 0 \/ v.ticks = 0 THEN v.ticks ELSE F32_TICK - v.ticks
        exponent == IF whole >= 1 THEN ilog2(whole) ELSE ilog2(ticks) - 26
    IN  Bind(exponent + 3, LAMBDA e : IF e <= 0 THEN 1 ELSE 2 ^ e)

\* the result of an f32 operation whose exact value is `exact`: the nearest f32, the one
\* with the even significand when two are as near
f32_round(exact) ==
    Bind(exact, LAMBDA v : Bind(f32_ulp(v), LAMBDA ulp :
        LET q == v.ticks \div ulp
            rest == v.ticks % ulp
            up == 2 * rest > ulp \/ (2 * rest = ulp /\ q % 2 = 1)
        IN  f32(v.whole, (IF up THEN q + 1 ELSE q) * ulp)))

f32_add(a, b) == f32_round(f32(a.whole + b.whole, a.ticks + b.ticks))
f32_sub(a, b) == f32_round(f32(a.whole - b.whole, a.ticks - b.ticks))
\* a multiplication by a whole number of at most 16
f32_times(n, a) == f32_round(f32(n * a.whole, n * a.ticks))
\* a division by 2.0 or multiplication by 0.5, which is exact
f32_half(a) == f32(a.whole \div 2, ((a.whole % 2) * F32_TICK + a.ticks) \div 2)

\* v <= n and n <= v for an f32 v and a whole number n
f32_le(v, n) == v.whole < n \/ (v.whole = n /\ v.ticks = 0)
f32_ge(v, n) == n <= v.whole

\* the literal 1.2 as an f32: 10066330 * 2^-23
F32_1_2 == f32(1, 1677722 * 8)

\* block_control_rects (main.rs) at zoom 1: btn_hit_size, its half, the distance
\* btn_hit_size / 2.0 + 4.0 * zoom of the centre of the close button from the right and
\* the top edge, and the distance btn_hit_size + btn_spacing of two centres
btn_size == 16
btn_spacing == 4
btn_hit_size == f32_times(btn_size, F32_1_2)
btn_hit_half == f32_half(btn_hit_size)
btn_inset == f32_add(btn_hit_half, f32_of(4))
btn_step == f32_add(btn_hit_size, f32_of(btn_spacing))

\* Rect::from_center_size with a square of side btn_hit_size, Rect::center and
\* Rect::contains (both ends of a range belong to it) for a pointer p on whole
\* coordinates
from_center_size(center) ==
    Bind(center, LAMBDA c :
        [min |-> Vec2(f32_sub(c.x, btn_hit_half), f32_sub(c.y, btn_hit_half)),
         max |-> Vec2(f32_add(c.x, btn_hit_half), f32_add(c.y, btn_hit_half))])
rect_center(rect_f32) ==
    Bind(rect_f32, LAMBDA r :
        Vec2(f32_half(f32_add(r.min.x, r.max.x)), f32_half(f32_add(r.min.y, r.max.y))))
button_contains(rect_f32, p) ==
    Bind(rect_f32, LAMBDA r :
        /\ f32_le(r.min.x, p.x) /\ f32_ge(r.max.x, p.x)
        /\ f32_le(r.min.y, p.y) /\ f32_ge(r.max.y, p.y))
\* the centre of the button to the left of the button with the rect rect_f32
next_center(rect_f32) ==
    Bind(rect_center(rect_f32), LAMBDA c : Vec2(f32_sub(c.x, btn_step), c.y))

\* the hit areas of the close, chain and counter buttons of a block whose rect is r:
\* the close button at the top right corner, each next one a step to the left of the
\* centre of the rect before it
close_rect(r) ==
    from_center_size(Vec2(f32_sub(f32_of(r.min.x + r.size.x), btn_inset),
                          f32_add(f32_of(r.min.y), btn_inset)))
block_control_rects(r) ==
    Bind(close_rect(r), LAMBDA close :
        Bind(from_center_size(next_center(close)), LAMBDA chain :
            [close_rect |-> close, chain_rect |-> chain,
             counter_rect |-> from_center_size(next_center(chain))]))

\* the pointer p is within 71 to the left of and 25 below the top right corner of the
\* rect r, and 3 off its right and its top edge.  The three hit areas lie there: their
\* edges are the f32 values next to right - 69.6, right - 4, top + 4 and top + 23.2, so
\* a pointer elsewhere is on none of them and only a pointer there is compared with the
\* edges.
buttons_near(r, p) ==
    /\ r.min.x + r.size.x - 71 <= p.x /\ p.x <= r.min.x + r.size.x - 3
    /\ r.min.y + 3 <= p.y /\ p.y <= r.min.y + 25

\* BlockControlHover (main.rs, update)
close_hovered(r, p) ==
    \E block_rect \in {r} :
        buttons_near(block_rect, p) /\ button_contains(close_rect(block_rect), p)
chain_hovered(r, p) ==
    \E block_rect \in {r} :
        buttons_near(block_rect, p)
        /\ button_contains(block_control_rects(block_rect).chain_rect, p)
\* groups have no counter button
counter_hovered(b, p) ==
    \E block_rect \in {rect(b)} :
        /\ ~b.is_group
        /\ buttons_near(block_rect, p)
        /\ button_contains(block_control_rects(block_rect).counter_rect, p)
any_button_hovered(b, p) ==
    \E block_rect \in {rect(b)} :
        /\ buttons_near(block_rect, p)
        /\ Bind(block_control_rects(block_rect), LAMBDA c :
               \/ button_contains(c.close_rect, p)
               \/ button_contains(c.chain_rect, p)
               \/ (~b.is_group /\ button_contains(c.counter_rect, p)))

\* the pointer p is on the block b: on its rect or on one of its buttons
block_hovered(b, p) ==
    rect_contains(b.position, outer_size(b), p) \/ any_button_hovered(b, p)

\* the resize handle of a press at p on the rect r: the quadrant of r the pointer is in
handle_at(r, p) ==
    LET left == 2 * p.x < 2 * r.min.x + r.size.x
        top == 2 * p.y < 2 * r.min.y + r.size.y
    IN  IF top THEN (IF left THEN "TopLeft" ELSE "TopRight")
        ELSE (IF left THEN "BottomLeft" ELSE "BottomRight")

\* the InteractionState recorded when the secondary button is pressed at m_pos on the
\* block b; initial_mouse_pos is the origin of delta_world
InteractionState(b, m_pos) ==
    [id |-> b.id, handle |-> handle_at(rect(b), m_pos), initial_mouse_pos |-> m_pos,
     initial_block_rect |-> rect(b)]

\* the block a press at p is recorded for: the loop over the blocks writes the record
\* for every block whose rect holds the pointer off its buttons, so the last one stays
pressed_index(bs, p) ==
    LET under == {i \in 1..Len(bs) : /\ rect_contains(bs[i].position, outer_size(bs[i]), p)
                                     /\ ~any_button_hovered(bs[i], p)}
    IN  IF under = {} THEN 0 ELSE CHOOSE i \in under : \A j \in under : j <= i

\* handle_resizing at the start of a frame whose pointer is at m_pos (zoom 1): the block
\* of the recorded gesture, if there is one, is resized for the distance of the pointer
\* from the place of the press
frame_delta(state, m_pos) ==
    Vec2(m_pos.x - state.initial_mouse_pos.x, m_pos.y - state.initial_mouse_pos.y)
frame_resizing(bs, recorded, m_pos) ==
    IF recorded = <<>> THEN bs
    ELSE handle_blocks_resizing(bs, recorded[1], frame_delta(recorded[1], m_pos))

\* where a press takes a block: at the top left corner of its rect and 10 inside its
\* bottom right corner
PressPoints(b) ==
    {b.position,
     Vec2(b.position.x + outer_size(b).x - 10, b.position.y + outer_size(b).y - 10)}

\* where a click hits the close button of a block
ClosePoint(b) == Vec2(b.position.x + outer_size(b).x - 14, b.position.y + 14)

\* working widths of the canvas in the resize specification
ResizeWidths == {500}

\* the start of a frame of MaBlocksApp::update (main.rs): when the width of the canvas
\* has changed, working_inner_width takes the new width w and the canvas is reflowed
\* before the pointer is looked at
frame_start(width_changed, w) ==
    IF width_changed THEN reflow_blocks(Self, w).blocks ELSE blocks

\* the points of a press and of a click on the close button of the block at i, as the
\* frame finds it
PressPointsAt(i, width_changed, w) ==
    UNION {PressPoints(b) : b \in {frame_start(width_changed, w)[i]}}
ClosePointsAt(i, width_changed, w) ==
    {ClosePoint(b) : b \in {frame_start(width_changed, w)[i]}}

\* the divisions of a resize of the blocks `before` were exact in integers
ResizeExact(before, state, idx, target, after) ==
    LET Ratio(b) == b.image_size.x * b.aspect_ratio.d = b.image_size.y * b.aspect_ratio.n
        Even(a) == a % 2 = 0
    IN  idx # 0 =>
          /\ (is_finite(target) /\ target >= MIN_BLOCK_SIZE =>
                after[idx].image_size.x = target)
          /\ Ratio(after[idx])
          /\ Even(outer_size(after[idx]).x - state.initial_block_rect.size.x)
          /\ Even(outer_size(after[idx]).y - state.initial_block_rect.size.y)
          /\ \A i \in 1..Len(before) :
               /\ Even(after[i].image_size.x - before[i].image_size.x)
               /\ Even(after[i].image_size.y - before[i].image_size.y)
               /\ (after[i].image_size.x > MIN_BLOCK_SIZE => Ratio(after[i]))

\* no image side a resize changed exceeds MaxSide: the sizes the specifications explore
ResizeBounded(before, after) ==
    \E resized \in {after} :
        \A i \in 1..Len(resized) :
            resized[i] # before[i] =>
                /\ resized[i].image_size.x <= MaxSide
                /\ resized[i].image_size.y <= MaxSide
FrameBounded(m_pos, released, width_changed, w) ==
    IF released \/ resizing_state = <<>> THEN TRUE
    ELSE \E start \in {frame_start(width_changed, w)} :
             ResizeBounded(start, frame_resizing(start, resizing_state, m_pos))
StepBounded == ResizeBounded(blocks, blocks')

\* the resize of a frame with the pointer at m_pos was exact in integers
FrameExact(before, recorded, m_pos) ==
    IF recorded = <<>> THEN TRUE
    ELSE LET state == recorded[1]
             idx == PositionOf(before, LAMBDA b : b.id = state.id)
             target == IF idx # 0
                       THEN resize_target_width(before[idx], state,
                                                frame_delta(state, m_pos))
                       ELSE 0
         IN  ResizeExact(before, state, idx, target,
                         frame_resizing(before, recorded, m_pos))

\* the frame in which the secondary button is pressed at m_pos (main.rs): a changed
\* width of the canvas reflows it first; a release seen in the same frame ends the
\* recorded gesture; a gesture still recorded resizes its block for this pointer
\* position; then the press is recorded for the block at i, the one under the pointer,
\* with the rect it has now, whatever was recorded before; after a release the canvas is
\* reflowed at the end of the frame.  The ghost records whether a gesture resized in
\* the frame and whether the button was released.
ResizeStart(i, m_pos, released, width_changed, w) ==
    \E start \in {frame_start(width_changed, w)} :
    \E recorded \in {IF released THEN <<>> ELSE resizing_state} :
    \E resized \in {frame_resizing(start, recorded, m_pos)} :
        /\ ~panicked
        /\ FrameExact(start, recorded, m_pos)
        /\ i = pressed_index(resized, m_pos)
        /\ CommitFields(IF released
                        THEN reflow_blocks([Self EXCEPT !.blocks = resized], w)
                        ELSE [Self EXCEPT !.blocks = resized])
        /\ resizing_state' = <<InteractionState(resized[i], m_pos)>>
        /\ last' = Op3("resize_start", resized[i].id,
                       IF recorded # <<>> THEN 1 ELSE 0, IF released THEN 1 ELSE 0)
        /\ BreakRun

\* the frame of a primary click at m_pos on the close button of the block at i, the
\* pointer being on no other block (main.rs): a changed width of the canvas reflows it
\* first, a recorded gesture resizes its block for this pointer position, the block is
\* removed with its children and the canvas is reflowed at the end of the frame;
\* chains, remembered chains and the recorded gesture are left as they are
CloseButton(i, m_pos, width_changed, w) ==
    \E start \in {frame_start(width_changed, w)} :
    \E resized \in {frame_resizing(start, resizing_state, m_pos)} :
        /\ ~panicked
        /\ FrameExact(start, resizing_state, m_pos)
        /\ close_hovered(rect(resized[i]), m_pos)
        /\ \A j \in 1..Len(resized) : j # i => ~block_hovered(resized[j], m_pos)
        /\ CommitFields(reflow_blocks([Self EXCEPT !.blocks = RemoveAt(resized, i)], w))
        /\ UNCHANGED resizing_state
        /\ last' = Op("close", resized[i].id, w, {resized[i].id})
        /\ BreakRun

\* one frame of the resize gesture, the pointer being delta_world away from where the
\* button was pressed (the block of the gesture may be gone: it was removed during the
\* gesture); the ghost records the id of the gesture and whether the target width was
\* F_NAN, F_INF or finite (0)
Resize(delta_world) ==
    /\ resizing_state # <<>>
    /\ LET state == resizing_state[1]
           idx == PositionOf(blocks, LAMBDA b : b.id = state.id)
           target == IF idx # 0 THEN resize_target_width(blocks[idx], state, delta_world)
                     ELSE 0
           after == handle_blocks_resizing(blocks, state, delta_world)
       IN  /\ ~panicked
           /\ ResizeExact(blocks, state, idx, target, after)
           /\ blocks' = after
           /\ last' = Op3("resize", state.id, IF is_finite(target) THEN 0 ELSE target, 0)
    /\ UNCHANGED <<next_block_id, remembered_chains, animation_access_order,
                   panicked, last_unboxed_ids, last_boxed_id, resizing_state>>
    /\ BreakRun

\* the frame in which the secondary button is released (main.rs): the gesture, if there
\* is one, ends and the canvas is reflowed
ResizeStop(w) ==
    /\ ~panicked
    /\ CommitFields(reflow_blocks(Self, w))
    /\ resizing_state' = <<>>
    /\ last' = Op3("resize_stop", w, 0, 0)
    /\ BreakRun

\* images are loaded, chain buttons clicked and the button pressed between the gestures
\* (the stale identifier specification interleaves a gesture with other operations and
\* with further presses); a press may come with a release in its frame
ResizeNext ==
    \/ /\ resizing_state = <<>>
       /\ \E size \in DecodedSizes : \E w \in ResizeWidths :
              PushUpTo(MaxResizeBlocks, scaled_size(size), w)
    \/ /\ resizing_state = <<>>
       /\ \E i \in Indices : ToggleChain(i)
    \/ /\ resizing_state = <<>>
       /\ \E i \in Indices : \E released, width_changed \in BOOLEAN : \E w \in ResizeWidths :
              \E m_pos \in PressPointsAt(i, width_changed, w) :
                  /\ FrameBounded(m_pos, released, width_changed, w)
                  /\ ResizeStart(i, m_pos, released, width_changed, w)
    \/ \E delta_world \in ResizeDeltas : Resize(delta_world) /\ StepBounded
    \/ \E w \in ResizeWidths : ResizeStop(w)

SpecResize == Init /\ [][ResizeNext]_vars

\* ---------------------------------------------------------------------------
\* Stale identifier specification: images are loaded, marked, resized and removed by id,
\* with the ids of blocks that exist, that were removed, or that were never created;
\* blocks are closed by their button and the secondary button is pressed again during a
\* gesture
\* ---------------------------------------------------------------------------
\* the ids a caller may still hold: every id created so far and the next one
HeldIds == 1..(next_block_id + 1)

RemoveById(id) ==
    /\ ~panicked
    /\ Commit(remove_by_id(Self, id))
    /\ last' = Op("remove_by_id", id, 0, {id} \cap TopIds)
    /\ BreakRun

\* a press is made while no gesture is recorded, or replaces the gesture recorded by the
\* press of the step before (its release seen in this frame or not at all)
SecondPress(released) ==
    resizing_state = <<>> \/ (last.op = "resize_start" /\ last.b = 0)

StaleNext ==
    \/ \E w \in ResizeWidths : PushUpTo(MaxStaleBlocks, Vec2(100, 100), w)
    \/ \E id \in HeldIds : MarkAnimationUsed(id)
    \/ \E id \in HeldIds : RemoveById(id)
    \/ \E i \in Indices : \E released, width_changed \in BOOLEAN : \E w \in ResizeWidths :
           \E m_pos \in PressPointsAt(i, width_changed, w) :
               /\ SecondPress(released)
               /\ FrameBounded(m_pos, released, width_changed, w)
               /\ ResizeStart(i, m_pos, released, width_changed, w)
    \/ \E delta_world \in ResizeDeltas : Resize(delta_world) /\ StepBounded
    \/ \E i \in Indices : \E width_changed \in BOOLEAN : \E w \in ResizeWidths :
           \E m_pos \in ClosePointsAt(i, width_changed, w) :
               /\ FrameBounded(m_pos, FALSE, width_changed, w)
               /\ CloseButton(i, m_pos, width_changed, w)

SpecStale == Init /\ [][StaleNext]_vars

\* ---------------------------------------------------------------------------
\* Compact specification: images are pushed, chained, removed and boxed or unboxed by
\* the compact toggle
\* ---------------------------------------------------------------------------
\* what a toggle_compact_group step did: 1 a group was created, 2 a group was taken out,
\* 0 nothing
CompactEffect(after) ==
    IF after.next_block_id # next_block_id THEN 1
    ELSE IF Len(after.blocks) # Len(blocks) \/ after.last_boxed_id # last_boxed_id THEN 2
    ELSE 0

\* the ids that a toggle_compact_group step took from the top level or put there
CompactMoved(after) ==
    LET ids == {after.blocks[i].id : i \in 1..Len(after.blocks)}
    IN IF CompactEffect(after) = 1 THEN TopIds \ ids ELSE ids \ TopIds

\* the compact toggle; the history holds the number of chained blocks before the step,
\* what the step did, and to which ids
ToggleCompactGroup(w) ==
    /\ ~panicked
    /\ toggle_compact_group(Self, w).next_block_id <= 3 * MaxCompactBlocks
    /\ Commit(toggle_compact_group(Self, w))
    /\ last' = Op("toggle_compact_group", chained_count(Self),
                  CompactEffect(toggle_compact_group(Self, w)),
                  CompactMoved(toggle_compact_group(Self, w)))
    /\ BreakRun

CompactNext ==
    \/ \E size \in LayoutSizes : \E w \in OrderWidths : PushUpTo(MaxCompactBlocks, size, w)
    \/ \E i \in Indices : ToggleChain(i)
    \/ \E i \in Indices : RemoveCascade(i)
    \/ \E w \in OrderWidths : ToggleCompactGroup(w)

SpecCompact == Init /\ [][CompactNext]_vars

\* ---------------------------------------------------------------------------
\* Counter specification: images are pushed, counted by clicks, chained and boxed (a box
\* may be boxed again), and all counters are reset
\* ---------------------------------------------------------------------------
MaxCounterBlocks == 2
MaxCounter == 2
\* working width of the canvas: it holds two images in a row
CounterWidths == {500}

\* the depth of the deepest block of the tree of b whose counter is not 0 (b itself is
\* at depth 1), or 0 when every counter of the tree is 0
RECURSIVE counted_depth(_)
counted_depth(b) ==
    LET below == {counted_depth(b.children[k]) : k \in 1..Len(b.children)} \ {0}
    IN  IF below # {} THEN 1 + (CHOOSE d \in below : \A e \in below : e <= d)
        ELSE IF b.counter # 0 THEN 1 ELSE 0

\* the counter button is shown on image blocks only (HoverState: !is_group)
CounterPrimaryClick(i) ==
    /\ ~panicked
    /\ ~blocks[i].is_group
    /\ blocks[i].counter < MaxCounter
    /\ Commit(counter_primary_click(Self, i))
    /\ last' = Op("counter_primary_click", blocks[i].id, 0, {})
    /\ BreakRun

\* the frame of a secondary click on the counter button: the release of the button ends
\* any resize gesture, the counter is decremented and the canvas is reflowed
CounterSecondaryClick(i, w) ==
    /\ ~panicked
    /\ ~blocks[i].is_group
    /\ CommitFields(reflow_blocks(counter_secondary_click(Self, i), w))
    /\ resizing_state' = <<>>
    /\ last' = Op("counter_secondary_click", blocks[i].id, 0, {})
    /\ BreakRun

\* the ghost records how deep the deepest counted block was before the reset
ResetAllCounters ==
    /\ ~panicked
    /\ Commit(reset_all_counters(Self))
    /\ last' = Op("reset_all_counters",
                  Cardinality({i \in Indices : counted_depth(blocks[i]) # 0}),
                  IF \E i \in Indices : counted_depth(blocks[i]) >= 3 THEN 3
                  ELSE IF \E i \in Indices : counted_depth(blocks[i]) = 2 THEN 2
                  ELSE IF \E i \in Indices : counted_depth(blocks[i]) = 1 THEN 1 ELSE 0,
                  {})
    /\ BreakRun

CounterNext ==
    \/ \E w \in CounterWidths : PushUpTo(MaxCounterBlocks, Vec2(100, 100), w)
    \/ \E i \in Indices : ToggleChain(i)
    \/ BoxChainedUpTo(2 * MaxCounterBlocks)
    \/ \E i \in Indices : CounterPrimaryClick(i)
    \/ \E i \in Indices : \E w \in CounterWidths : CounterSecondaryClick(i, w)
    \/ ResetAllCounters

SpecCounter == Init /\ [][CounterNext]_vars

\* ---------------------------------------------------------------------------
\* Cascade specification: skeletons are pushed, marked as used, chained, boxed and
\* removed in cascade
\* ---------------------------------------------------------------------------
MaxCascadeBlocks == 3

CascadeNext ==
    \/ PushSkeletonUpTo(MaxCascadeBlocks)
    \/ \E i \in Indices : MarkAnimationUsed(blocks[i].id)
    \/ \E i \in Indices : ToggleChain(i)
    \/ BoxChainedUpTo(MaxCascadeBlocks + 1)
    \/ \E i \in Indices : RemoveCascade(i)

SpecCascade == Init /\ [][CascadeNext]_vars

\* ---------------------------------------------------------------------------
\* Settle specification: images of minimum size and wider ones are pushed and the layout
\* is settled by reorder_and_reflow with no leader on a canvas that holds two
\* minimum-size images in a row
\* ---------------------------------------------------------------------------
MaxSettleBlocks == 5

\* decoded image sizes after scaled_size: minimum size, and as high but twice as wide
SettleSizes == {Vec2(MIN_BLOCK_SIZE, MIN_BLOCK_SIZE), Vec2(2 * MIN_BLOCK_SIZE, MIN_BLOCK_SIZE)}
SettleWidths == {150}

SettleNext ==
    \/ \E size \in SettleSizes : \E w \in SettleWidths : PushUpTo(MaxSettleBlocks, size, w)
    \/ \E w \in SettleWidths : ReorderAndReflow(NIL_UUID, w)

SpecSettle == Init /\ [][SettleNext]_vars

\* ---------------------------------------------------------------------------
\* Compare specification: should_insert_before applied to the positions of every two
\* blocks of every collection of up to MaxCompareBlocks blocks, groups or images, at
\* positions above, on and below the row boundaries
\* ---------------------------------------------------------------------------
MaxCompareBlocks == 2

ComparePositions ==
    {Vec2(32, 32), Vec2(224, 32), Vec2(32, 99), Vec2(32, 100), Vec2(224, 199),
     Vec2(32, -50), Vec2(224, -150)}

CompareInit == DrawnCollection(MaxCompareBlocks, ComparePositions)

\* should_insert_before(position of the block at i, position of the block at j); the
\* ghost holds the two ids and the result (1 true, 0 false)
ShouldInsertBefore(i, j) ==
    /\ ~panicked
    /\ last' = Op3("should_insert_before", blocks[i].id, blocks[j].id,
                   IF should_insert_before(blocks[i].position, blocks[j].position)
                   THEN 1 ELSE 0)
    /\ BreakRun
    /\ UNCHANGED <<blocks, next_block_id, remembered_chains, animation_access_order,
                   panicked, last_unboxed_ids, last_boxed_id, resizing_state>>

CompareNext == \E i \in Indices : \E j \in Indices : ShouldInsertBefore(i, j)

SpecCompare == CompareInit /\ [][CompareNext]_vars

\* ---------------------------------------------------------------------------
\* Unbox specification: images are pushed, chained and boxed, and unbox_group is called
\* on any index of the collection, as its signature allows
\* ---------------------------------------------------------------------------
MaxUnboxBlocks == 3

UnboxAt(i) ==
    /\ ~panicked
    /\ Commit(unbox_group(Self, i))
    /\ last' = Op("unbox_group", blocks[i].id, 0, Range(unbox_group_ids(Self, i)))
    /\ BreakRun

UnboxNext ==
    \/ PushUpTo(MaxUnboxBlocks, Vec2(100, 100), CANVAS_WORKING_WIDTH)
    \/ \E i \in Indices : ToggleChain(i)
    \/ BoxChainedUpTo(MaxUnboxBlocks + 1)
    \/ \E i \in Indices : UnboxAt(i)

SpecUnbox == Init /\ [][UnboxNext]_vars

\* ---------------------------------------------------------------------------
\* Playback specification: the session of the cache specification, continued by pushes
\* of skeletons, loads of whole animations, activations, clicks that toggle the animation
\* of a block, frame advances and marks
\* ---------------------------------------------------------------------------
MaxPlaybackPush == 2

\* a click toggles the animation of the block at i (main.rs, update)
ToggleAnimation(i) ==
    /\ ~panicked
    /\ blocks' = [blocks EXCEPT ![i] = toggle_animation(blocks[i])]
    /\ last' = Op("toggle_animation", blocks[i].id, 0, {})
    /\ BreakRun
    /\ UNCHANGED <<next_block_id, remembered_chains, animation_access_order, panicked,
                   last_unboxed_ids, last_boxed_id, resizing_state>>

PlaybackNext ==
    \/ PushSkeletonUpTo(WarmBlocks + MaxPlaybackPush)
    \/ LoadAnimationUpTo(WarmBlocks + MaxPlaybackPush, CANVAS_WORKING_WIDTH)
    \/ \E i \in CacheIndices : ActivateAnimation(i)
    \/ \E i \in CacheIndices : ToggleAnimation(i)
    \/ \E i \in CacheIndices : UpdateAnimation(i)
    \/ \E i \in CacheIndices : MarkAnimationUsed(blocks[i].id)

SpecPlayback == CacheInit /\ [][PlaybackNext]_vars

\* ---------------------------------------------------------------------------
\* Drop specification: images are loaded, chained, boxed and unboxed, dragged and closed
\* by their button; a block released with the pointer over a group is dropped into it
\* ---------------------------------------------------------------------------
\* blocks ever created (images and groups)
MaxDropBlocks == 3
DropWidths == {500}
\* pointer movement of one drag step: towards the left margin
DropDeltas == {Vec2(-100, 0)}

DropNext ==
    \/ \E w \in DropWidths : PushUpTo(MaxDropBlocks, Vec2(100, 100), w)
    \/ \E i \in Indices : ToggleChain(i)
    \/ BoxChainedUpTo(MaxDropBlocks)
    \/ \E i \in Indices : UnboxGroup(i)
    \/ \E i \in Indices : DragStart(i)
    \/ \E i \in Indices : \E delta \in DropDeltas : DragMove(i, delta)
    \/ \E i \in Indices : \E world_mouse \in GrabPoints(blocks[i]) :
           \E w \in DropWidths : DragStop(i, world_mouse, w)
    \/ \E i \in Indices : \E width_changed \in BOOLEAN : \E w \in DropWidths :
           \E m_pos \in ClosePointsAt(i, width_changed, w) :
               /\ FrameBounded(m_pos, FALSE, width_changed, w)
               /\ CloseButton(i, m_pos, width_changed, w)

SpecDrop == Init /\ [][DropNext]_vars

\* ---------------------------------------------------------------------------
\* Registry specification: the public operations of BlockManager called in any order
\* with blocks the caller built (push, insert, clear, the removals, set_remembered_chains,
\* allocate_block_id, writes through get_mut and blocks_mut), the chain operations, and
\* the loading of a session file (main.rs)
\* ---------------------------------------------------------------------------
\* ids of blocks in the registry at one time
MaxRegistryBlocks == 2
\* largest value of the id counter
MaxRegistryCounter == 2

RegistryIds == 1..MaxRegistryBlocks

\* the ids of the blocks anywhere in the trees of bs
RECURSIVE IdsIn(_)
IdsIn(bs) == UNION {{bs[i].id} \cup IdsIn(bs[i].children) : i \in 1..Len(bs)}

\* the ids the state holds anywhere; Uuid::new_v4() yields none of them
KnownIds ==
    IdsIn(blocks) \cup UNION Range(remembered_chains) \cup Range(animation_access_order)
    \cup Range(last_unboxed_ids) \cup {last_boxed_id}

\* Uuid::new_v4() as the least number the state does not hold; `n` ids are needed
FreshIds == RegistryIds \ KnownIds
LeastOf(S) == CHOOSE x \in S : \A y \in S : x <= y

\* the blocks a caller builds around the fresh ids: an animation of three frames as
\* ImageBlock::new leaves it, the same with the chained flag set, and a group of one
\* such animation (ImageBlock::new_group, update_group_name)
NewBlocks ==
    IF FreshIds = {} THEN {}
    ELSE LET id == LeastOf(FreshIds)
             image == ImageBlock_new(id, Vec2(100, 100), 3, TRUE)
         IN {image, [image EXCEPT !.chained = TRUE]}
            \cup (IF FreshIds \ {id} = {} THEN {}
                  ELSE {update_group_name(ImageBlock_new_group(
                            LeastOf(FreshIds \ {id}), <<image>>))})

AllocateBlockId ==
    /\ ~panicked
    /\ next_block_id < MaxRegistryCounter
    /\ Commit(allocate_block_id(Self))
    /\ last' = Op("allocate_block_id", next_block_id, 0, {})
    /\ BreakRun

ManagerPush(block) ==
    /\ ~panicked
    /\ Commit(push(Self, block))
    /\ last' = Op("manager_push", block.id, 0, {})
    /\ BreakRun

ManagerInsert(index, block) ==
    /\ ~panicked
    /\ Commit(insert(Self, index, block))
    /\ last' = Op("manager_insert", block.id, index, {})
    /\ BreakRun

ManagerClear ==
    /\ ~panicked
    /\ Commit(clear(Self))
    /\ last' = Op("clear", 0, 0, IdsIn(blocks))
    /\ BreakRun

\* the chains a caller hands over: none, a single id, a pair, two chains that overlap
RegistryChains ==
    {<<>>, <<{1}>>, <<{1, 2}>>, <<{1, 2}, {2, MaxRegistryBlocks}>>}

SetRememberedChains(chains) ==
    /\ ~panicked
    /\ Commit(set_remembered_chains(Self, chains))
    /\ last' = Op("set_remembered_chains", Len(chains), 0, {})
    /\ BreakRun

GetMutSetChained(id, chained) ==
    /\ ~panicked
    /\ Commit(get_mut_set_chained(Self, id, chained))
    /\ last' = Op("get_mut", id, IF chained THEN 1 ELSE 0, {})
    /\ BreakRun

BlocksMutSetCounter(i, counter) ==
    /\ ~panicked
    /\ Commit(blocks_mut_set_counter(Self, i, counter))
    /\ last' = Op("blocks_mut", blocks[i].id, counter, {})
    /\ BreakRun

\* the history holds the ids the call removed
RemoveWithChildren(i) ==
    /\ ~panicked
    /\ Commit(remove_with_children(Self, i))
    /\ last' = Op("remove_with_children", blocks[i].id, 0,
                  Range(remove_with_children_ids(Self, i)))
    /\ BreakRun

\* a saved block of a session file
SessionImage(id, path, position, chained, counter) ==
    [id |-> id, position |-> position, size |-> Vec2(100, 100), path |-> path,
     chained |-> chained, animation_enabled |-> TRUE, counter |-> counter,
     is_group |-> FALSE, group_name |-> NoName, children |-> <<>>]

SessionGroup(id, position, chained, children) ==
    [id |-> id, position |-> position,
     size |-> Vec2(DEFAULT_GROUP_SIZE, DEFAULT_GROUP_SIZE), path |-> NO_PATH,
     chained |-> chained, animation_enabled |-> FALSE, counter |-> 0,
     is_group |-> TRUE, group_name |-> GroupName("Group of", Len(children)),
     children |-> children]

\* the session files: an empty one; two chained images with a chain of both, a chain of
\* one id and a chain of which one string is no uuid; a group of two saved images, one
\* of them without a path, with the same chain saved twice
SessionFiles ==
    { [blocks |-> <<>>, remembered_chains |-> <<>>],
      [blocks |-> <<SessionImage(1, 1, Vec2(32, 32), TRUE, 2),
                    SessionImage(2, 2, Vec2(32, 32), TRUE, 0)>>,
       remembered_chains |-> <<<<1, 2>>, <<2>>, <<1, -1>>>>],
      [blocks |-> <<SessionGroup(MaxRegistryBlocks, Vec2(164, 32), FALSE,
                        <<SessionImage(1, 1, Vec2(0, 0), FALSE, 1),
                          SessionImage(MaxRegistryBlocks + 1, NO_PATH, Vec2(0, 0),
                                       FALSE, 0)>>)>>,
       remembered_chains |-> <<<<1, MaxRegistryBlocks>>, <<MaxRegistryBlocks, 1>>>>] }

\* a session file is loaded (main.rs), the working width being w
LoadSession(session, w) ==
    /\ ~panicked
    /\ load_session(Self, session, w).next_block_id <= MaxRegistryCounter
    /\ Commit(load_session(Self, session, w))
    /\ last' = Op("load_session", Len(session.blocks), 0, IdsIn(blocks))
    /\ BreakRun

RegistryNext ==
    \/ AllocateBlockId
    \/ \E block \in NewBlocks : ManagerPush(block)
    \/ \E block \in NewBlocks : \E index \in 1..(Len(blocks) + 2) :
           ManagerInsert(index, block)
    \/ ManagerClear
    \/ \E chains \in RegistryChains : SetRememberedChains(chains)
    \/ \E id \in RegistryIds : \E chained \in BOOLEAN : GetMutSetChained(id, chained)
    \/ \E i \in Indices : \E counter \in {0, 7} : BlocksMutSetCounter(i, counter)
    \/ \E i \in Indices : Remove(i)
    \/ \E id \in RegistryIds : RemoveById(id)
    \/ \E i \in Indices : RemoveWithChildren(i)
    \/ \E i \in Indices : RemoveCascade(i)
    \/ \E i \in Indices : ToggleChain(i)
    \/ ClearChainGroup
    \/ \E id \in RegistryIds : MarkAnimationUsed(id)
    \/ \E session \in SessionFiles : LoadSession(session, CANVAS_WORKING_WIDTH)

SpecRegistry == Init /\ [][RegistryNext]_vars

\* ---------------------------------------------------------------------------
\* Claims
\* ---------------------------------------------------------------------------
\* C2: no child of a top-level group block is itself a group (nesting depth <= 2).
C2_NoGroupInsideGroup ==
    \A i \in Indices :
        blocks[i].is_group =>
            \A k \in 1..Len(blocks[i].children) : ~blocks[i].children[k].is_group

\* C3: the remembered chains are pairwise disjoint and each has at least 2 members.
C3_ChainsDisjoint ==
    /\ \A i, j \in 1..Len(remembered_chains) :
           i # j => remembered_chains[i] \cap remembered_chains[j] = {}
    /\ \A i \in 1..Len(remembered_chains) : Cardinality(remembered_chains[i]) >= 2

\* C3 witness: a clear has just remembered a second chain beside an earlier one.
C3_Witness ==
    /\ last.op = "clear_chain_group"
    /\ Cardinality(last.ids) >= 2
    /\ Len(remembered_chains) >= 2

\* C9: after a chained set S of at least 2 blocks was cleared, toggling one member of S
\* chains exactly the members of S that are still top-level blocks.
C9_RememberedRoundTrip ==
    (last.op = "toggle_chain" /\ Cardinality(last.cleared) >= 2 /\ last.a \in last.cleared)
        => ChainedNow = last.cleared \cap TopIds

\* C9 witness: the toggle after the clear has chained several blocks at once.
C9_Witness ==
    /\ last.op = "toggle_chain"
    /\ Cardinality(last.cleared) >= 3
    /\ last.a \in last.cleared
    /\ Cardinality(ChainedNow) >= 2
    /\ ChainedNow # last.cleared

\* the right edge of a top-level block
RightEdge(b) == b.position.x + outer_size(b).x

\* C5 as stated: after reflow(inner_width) no block's right edge exceeds
\* CANVAS_PADDING + inner_width.
C5_RightEdgeWithinWidth ==
    last.op = "reflow" =>
        \A i \in Indices : RightEdge(blocks[i]) <= CANVAS_PADDING + last.a

\* C5: after reflow(inner_width) no block's right edge exceeds
\* CANVAS_PADDING + max(inner_width, MIN_CANVAS_INNER_WIDTH).
C5_RightEdgeWithinFlooredWidth ==
    last.op = "reflow" =>
        \A i \in Indices :
            RightEdge(blocks[i]) <= CANVAS_PADDING + Max(last.a, MIN_CANVAS_INNER_WIDTH)

\* C5 witness: a reflow has narrowed a block to the canvas width and wrapped a row.
C5_Witness ==
    /\ last.op = "reflow"
    /\ \E i \in Indices : blocks[i].image_size.x < blocks[i].preferred_image_size.x
    /\ \E i \in Indices : blocks[i].position.y > CANVAS_PADDING

\* C6: after reflow, when two blocks adjacent in the collection differ in group/non-group
\* category, the second is at x = CANVAS_PADDING with a Y above the first's.
C6_CategoryChangeStartsRow ==
    last.op = "reflow" =>
        \A i \in 1..(Len(blocks) - 1) :
            blocks[i].is_group # blocks[i + 1].is_group =>
                /\ blocks[i + 1].position.x = CANVAS_PADDING
                /\ blocks[i + 1].position.y > blocks[i].position.y

\* C6 witness: after a reflow a block of the other category follows a block whose row
\* had room left for it.
C6_Witness ==
    /\ last.op = "reflow"
    /\ \E i \in 1..(Len(blocks) - 1) :
           /\ blocks[i].is_group # blocks[i + 1].is_group
           /\ RightEdge(blocks[i]) + ALIGN_SPACING + outer_size(blocks[i + 1]).x
                  <= CANVAS_PADDING + last.a

\* C7: a second reflow with the same inner_width changes no block (position and
\* image_size included).
C7_ReflowIdempotent ==
    last.op = "reflow" => reflow(Self, last.a).blocks = blocks

\* C7 witness: a reflow has laid out three blocks over several rows, one of them narrowed.
C7_Witness ==
    /\ last.op = "reflow"
    /\ Len(blocks) >= 3
    /\ \E i \in Indices : blocks[i].position.y > CANVAS_PADDING
    /\ \E i \in Indices : blocks[i].image_size # blocks[i].preferred_image_size

\* `after` is `before` moved by the delta (dx, dy)
MovedBy(before, after, dx, dy) ==
    after.position = Vec2(before.position.x + dx, before.position.y + dy)

\* C8: a drag step by D with a chained leader moves every chained top-level block by D;
\* with an unchained leader it moves the leader by D and no other block.
C8_DragStepDelta ==
    [][last'.op = "drag_step" =>
         LET leader == CHOOSE i \in Indices : blocks[i].id = last'.a
         IN  /\ Len(blocks') = Len(blocks)
             /\ MovedBy(blocks[leader], blocks'[leader], last'.b, last'.c)
             /\ \A i \in Indices \ {leader} :
                    IF blocks[leader].chained /\ blocks[i].chained
                    THEN MovedBy(blocks[i], blocks'[i], last'.b, last'.c)
                    ELSE ~blocks[leader].chained =>
                             blocks'[i].position = blocks[i].position]_vars

\* C8 witness: a drag step has just moved a chained leader while another block is chained.
C8_Witness ==
    /\ last.op = "drag_step"
    /\ \E i, j \in Indices :
           /\ i # j
           /\ blocks[i].id = last.a
           /\ blocks[i].is_dragging
           /\ blocks[i].chained
           /\ blocks[j].chained

\* C4: after reflow, also at the end of reorder_and_reflow, every group block comes
\* before every non-group block in the collection and lies in a row above it.
C4_GroupsBeforeNonGroups ==
    last.op \in {"reflow", "reorder_and_reflow"} =>
        \A i, j \in Indices :
            (blocks[i].is_group /\ ~blocks[j].is_group) =>
                /\ i < j
                /\ blocks[i].position.y < blocks[j].position.y

\* C1: at most MAX_CACHED_ANIMATIONS blocks, top-level or nested in groups, hold a full
\* multi-frame sequence.
C1_CacheBound == full_sequence_count(blocks) <= MAX_CACHED_ANIMATIONS

\* C10: when MAX_CACHED_ANIMATIONS + 1 distinct blocks were marked in sequence, the first
\* marked is left with one frame, is_full_sequence false, playback off and current frame
\* 0, and every other marked block keeps all its frames.
C10_LruEvictsFirstMarked ==
    (/\ last.op = "mark_animation_used"
     /\ mark_run # Broken
     /\ Len(mark_run) = MAX_CACHED_ANIMATIONS + 1) =>
        /\ \A k \in 1..Len(mark_run) : mark_run[k] \in TopIds
        /\ BlockOf(mark_run[1]).frames = 1
        /\ ~BlockOf(mark_run[1]).is_full_sequence
        /\ ~BlockOf(mark_run[1]).animation_enabled
        /\ BlockOf(mark_run[1]).current_frame = 0
        /\ \A k \in 2..Len(mark_run) :
               /\ BlockOf(mark_run[k]).frames = FullFrames(mark_run[k])
               /\ BlockOf(mark_run[k]).is_full_sequence

\* C10 witness: the mark that completed a run of MAX_CACHED_ANIMATIONS + 1 has evicted
\* the first marked block while the last marked block plays at a later frame.
C10_Witness ==
    /\ last.op = "mark_animation_used"
    /\ mark_run # Broken
    /\ Len(mark_run) = MAX_CACHED_ANIMATIONS + 1
    /\ BlockOf(mark_run[1]).frames = 1
    /\ Len(animation_access_order) = MAX_CACHED_ANIMATIONS
    /\ BlockOf(mark_run[MAX_CACHED_ANIMATIONS]).current_frame > 0

\* the blocks of bs that are chained, in the order of bs
ChainedBlocks(bs) == SelectSeq(bs, LAMBDA b : b.chained)

\* the index of the first non-group block of bs, or Len(bs) + 1 if there is none
NonGroupBoundary(bs) ==
    IF \E i \in 1..Len(bs) : ~bs[i].is_group
    THEN CHOOSE i \in 1..Len(bs) : ~bs[i].is_group /\ \A j \in 1..(i - 1) : bs[j].is_group
    ELSE Len(bs) + 1

\* bs with `inserted` put in before index `at`
SplicedAt(bs, at, inserted) ==
    SubSeq(bs, 1, at - 1) \o inserted \o SubSeq(bs, at, Len(bs))

\* C11: box_chained with exactly two non-group blocks chained puts one new group with
\* exactly these two blocks, in their order, in place of them; unbox_group of that group
\* right after takes the group out and puts the two blocks back, unchained, contiguous
\* and in the same order, where the non-group blocks begin.
C11_BoxUnboxRoundTrip ==
    [][/\ (/\ last'.op = "box_chained"
           /\ Len(ChainedBlocks(blocks)) = 2
           /\ \A k \in 1..2 : ~ChainedBlocks(blocks)[k].is_group) =>
              /\ Len(blocks') = Len(blocks) - 1
              /\ blocks'[1].is_group
              /\ blocks'[1].id \notin TopIds
              /\ blocks'[1].children = ChainedBlocks(blocks)
              /\ \A i \in 2..Len(blocks') : blocks'[i].id \in TopIds
       /\ (/\ last.op = "box_chained"
           /\ Cardinality(last.ids) = 2
           /\ \A k \in 1..Len(blocks[1].children) : ~blocks[1].children[k].is_group
           /\ last'.op = "unbox_group"
           /\ last'.a = last.a) =>
              LET back == [k \in 1..2 |-> [blocks[1].children[k] EXCEPT !.chained = FALSE]]
                  rest == Tail(blocks)
              IN  /\ blocks[1].id = last.a
                  /\ Len(blocks[1].children) = 2
                  /\ blocks' = SplicedAt(rest, NonGroupBoundary(rest), back)]_vars

\* C11 witness: a group of two images was boxed and unboxed right away, and the two
\* images are back in front of another image.
C11_Witness ==
    /\ last.op = "unbox_group"
    /\ last.b = 1
    /\ Cardinality(last.ids) = 2
    /\ \E i \in 1..(Len(blocks) - 2) :
           /\ {blocks[i].id, blocks[i + 1].id} = last.ids
           /\ ~blocks[i].chained /\ ~blocks[i + 1].chained
           /\ ~blocks[i + 2].is_group

\* the least element of a nonempty set of integers
Least(S) == CHOOSE x \in S : \A y \in S : x <= y

\* C12: box_chained with a chained block takes exactly the chained blocks out, keeps the
\* others in order and puts at index 0 one new unchained group with the chained blocks
\* as children, in order, at the component-wise minimum of their positions; with no
\* chained block it returns the nil id and changes nothing.
C12_BoxChained ==
    [][last'.op = "box_chained" =>
         LET cs == ChainedBlocks(blocks) IN
         IF cs = <<>>
         THEN /\ last'.a = NIL_UUID
              /\ UNCHANGED <<blocks, next_block_id, remembered_chains,
                             animation_access_order, panicked>>
         ELSE /\ Tail(blocks') = SelectSeq(blocks, LAMBDA b : ~b.chained)
              /\ blocks'[1].is_group
              /\ ~blocks'[1].chained
              /\ blocks'[1].id = last'.a
              /\ last'.a # NIL_UUID
              /\ last'.a \notin TopIds
              /\ blocks'[1].children = cs
              /\ blocks'[1].position.x = Least({cs[k].position.x : k \in 1..Len(cs)})
              /\ blocks'[1].position.y = Least({cs[k].position.y : k \in 1..Len(cs)})]_vars

\* C12 witness: a box has taken in two blocks at different positions that were not
\* neighbours, the minimum corner being the position of neither.
C12_Witness ==
    /\ last.op = "box_chained"
    /\ Len(blocks) >= 2
    /\ Len(blocks[1].children) = 2
    /\ blocks[1].children[1].id + 1 < blocks[1].children[2].id
    /\ \A k \in 1..2 : blocks[1].children[k].position # blocks[1].position

\* C13: unbox_group on a group takes the group out and puts its children, in child order
\* and unchained, in before the first non-group block of the rest (at the end if there
\* is none); the other blocks keep their order.
C13_UnboxGroup ==
    [][last'.op = "unbox_group" =>
         LET idx == CHOOSE i \in Indices : blocks[i].id = last'.a
             cs == blocks[idx].children
             rest == SubSeq(blocks, 1, idx - 1) \o SubSeq(blocks, idx + 1, Len(blocks))
         IN blocks' = SplicedAt(rest, NonGroupBoundary(rest),
                                [k \in 1..Len(cs) |-> [cs[k] EXCEPT !.chained = FALSE]])]_vars

\* C13 witness: an unbox has put two children, unchained, between a group and an image.
C13_Witness ==
    /\ last.op = "unbox_group"
    /\ \E i \in 2..(Len(blocks) - 2) :
           /\ blocks[i - 1].is_group
           /\ {blocks[i].id, blocks[i + 1].id} = last.ids
           /\ ~blocks[i].chained /\ ~blocks[i + 1].chained
           /\ ~blocks[i + 2].is_group

\* the index of the block a resize step was about, 0 if it was about no block
ResizedIndex == PositionOf(blocks, LAMBDA b : b.id = last'.a)

\* the width of the block is its height times its aspect ratio
KeepsAspect(b) == b.image_size.x * b.aspect_ratio.d = b.image_size.y * b.aspect_ratio.n

\* C14: a resize step of a chained block with more than one block chained leaves every
\* other chained block with the image height and preferred height of the resized block;
\* a resize step of a block that is not chained, or is the only chained one, leaves
\* every other block as it was.
C14_ChainedResize ==
    [][last'.op = "resize" /\ ResizedIndex # 0 =>
         LET idx == ResizedIndex IN
         IF blocks[idx].chained /\ chained_count(Self) > 1
         THEN \A i \in Indices \ {idx} :
                  blocks[i].chained =>
                      /\ blocks'[i].image_size.y = blocks'[idx].image_size.y
                      /\ blocks'[i].preferred_image_size.y = blocks'[idx].image_size.y
         ELSE \A i \in Indices \ {idx} : blocks'[i] = blocks[i]]_vars

\* C14 witness: a resize has left a chained block of another aspect ratio as high as the
\* chained block that was resized.
C14_Witness ==
    /\ last.op = "resize"
    /\ last.b = 0
    /\ \E i, j \in Indices :
           /\ blocks[i].id = last.a
           /\ j # i
           /\ blocks[i].chained /\ blocks[j].chained
           /\ blocks[j].aspect_ratio # blocks[i].aspect_ratio
           /\ blocks[j].image_size.y = blocks[i].image_size.y
           /\ blocks[j].preferred_image_size.y = blocks[i].image_size.y

\* C15: after a resize step the resized block and every chained block resized with it
\* have width = height * aspect ratio, and no block's aspect ratio has changed.
C15_ResizeKeepsAspect ==
    [][last'.op = "resize" /\ ResizedIndex # 0 =>
         LET idx == ResizedIndex IN
         /\ \A i \in Indices : blocks'[i].aspect_ratio = blocks[i].aspect_ratio
         /\ KeepsAspect(blocks'[idx])
         /\ (blocks[idx].chained /\ chained_count(Self) > 1 =>
                \A i \in Indices : blocks[i].chained => KeepsAspect(blocks'[i]))]_vars

\* C16: every block is at least MIN_BLOCK_SIZE wide.
C16_MinWidth == \A i \in Indices : blocks[i].image_size.x >= MIN_BLOCK_SIZE

\* C17: a resize whose target width was NaN or infinite leaves the resized block
\* MIN_BLOCK_SIZE wide.
C17_InvalidWidthFallsBack ==
    last.op = "resize" /\ last.b \in {F_NAN, F_INF} /\ last.a \in TopIds =>
        BlockOf(last.a).image_size.x = MIN_BLOCK_SIZE

\* C17 witness: a resize with a NaN target width has left a block of aspect ratio 1 / 2
\* MIN_BLOCK_SIZE wide and twice as high.
C17_Witness ==
    /\ last.op = "resize"
    /\ last.b = F_NAN
    /\ last.a \in TopIds
    /\ BlockOf(last.a).aspect_ratio.d # BlockOf(last.a).aspect_ratio.n
    /\ BlockOf(last.a).image_size = Vec2(MIN_BLOCK_SIZE, 2 * MIN_BLOCK_SIZE)
    /\ BlockOf(last.a).preferred_image_size = BlockOf(last.a).image_size

\* C18: mark_animation_used, remove_by_id and handle_blocks_resizing called with an id of
\* no top-level block do not fault and leave the blocks, the remembered chains and the
\* animation access order as they were.
C18_StaleIdNoOp ==
    [][last'.op \in {"mark_animation_used", "remove_by_id", "resize"}
         /\ last'.a \notin TopIds =>
           /\ ~panicked'
           /\ UNCHANGED <<blocks, next_block_id, remembered_chains,
                          animation_access_order>>]_vars

\* the ids of the moved set of a reorder_and_reflow step: the leader, or every chained
\* block when the leader is chained
MovedIds ==
    IF BlockOf(last'.b).chained THEN ChainedNow ELSE {last'.b}

\* the blocks left after the step that are in the moved set, and those that are not
MovedAfter == SelectSeq(blocks', LAMBDA b : b.id \in MovedIds)
RemainingAfter == SelectSeq(blocks', LAMBDA b : b.id \notin MovedIds)

\* the number of blocks in front of the moved set after the step
InsertIndex == Cardinality({i \in 1..Len(blocks') :
                               /\ blocks'[i].id \notin MovedIds
                               /\ \A j \in 1..i : blocks'[j].id \notin MovedIds})

\* C19: reorder_and_reflow with an existing leader puts the moved set in at an index of
\* the partition of its leader: at most the group boundary of the remaining blocks for a
\* leader that is a group, at least the group boundary for a leader that is not.
C19_InsertInLeaderPartition ==
    [][last'.op = "reorder_and_reflow" /\ last'.b \in TopIds =>
         LET group_boundary == NonGroupBoundary(RemainingAfter) - 1 IN
         IF BlockOf(last'.b).is_group
         THEN InsertIndex <= group_boundary
         ELSE InsertIndex >= group_boundary]_vars

\* the block of the state before the step that has the id of `b`
Before(b) == BlockOf(b.id)

\* C20: reorder_and_reflow with an existing leader leaves the same blocks, none lost,
\* added or doubled; the moved set is contiguous and in the order it had; the remaining
\* blocks are in the order of the layout comparator, taken on their positions before
\* the step.
C20_ReorderPermutes ==
    [][last'.op = "reorder_and_reflow" /\ last'.b \in TopIds =>
         /\ Len(blocks') = Len(blocks)
         /\ {blocks'[i].id : i \in 1..Len(blocks')} = TopIds
         /\ \A i \in 1..Len(blocks') :
                /\ blocks'[i].is_group = Before(blocks'[i]).is_group
                /\ blocks'[i].chained = Before(blocks'[i]).chained
                /\ blocks'[i].children = Before(blocks'[i]).children
         /\ [k \in 1..Len(MovedAfter) |-> MovedAfter[k].id]
              = LET moved == SelectSeq(blocks, LAMBDA b : b.id \in MovedIds)
                IN [k \in 1..Len(moved) |-> moved[k].id]
         /\ \A i, j \in 1..Len(blocks') :
                (i < j /\ blocks'[i].id \in MovedIds /\ blocks'[j].id \in MovedIds) =>
                    \A k \in i..j : blocks'[k].id \in MovedIds
         /\ \A i, j \in 1..Len(RemainingAfter) :
                i < j => cmp_layout(Before(RemainingAfter[i]),
                                    Before(RemainingAfter[j])) # "Greater"]_vars

\* C20 witness: a reorder led by a chained block has put two chained blocks, the one
\* with the lower id first, behind a block that has a higher id than both.
C20_Witness ==
    /\ last.op = "reorder_and_reflow"
    /\ last.b \in TopIds
    /\ BlockOf(last.b).chained
    /\ Len(blocks) >= 3
    /\ ~blocks[1].chained
    /\ blocks[2].chained /\ blocks[3].chained
    /\ blocks[2].id < blocks[3].id
    /\ blocks[3].id < blocks[1].id

\* the blocks the state before the step had, in the order of the ids after the step
BeforeInNewOrder == [i \in 1..Len(blocks') |-> Before(blocks'[i])]

\* C21: reorder_and_reflow with no leader leaves the same blocks, ordered by the layout
\* comparator on the positions they had before the call (groups first, then rows, then
\* x), and the result is the reflow of the blocks in that order.
C21_ReorderNoLeaderSorts ==
    [][last'.op = "reorder_and_reflow" /\ last'.b = NIL_UUID =>
         /\ Len(blocks') = Len(blocks)
         /\ {blocks'[i].id : i \in 1..Len(blocks')} = TopIds
         /\ \A i, j \in 1..Len(blocks') :
                i < j =>
                    /\ cmp_layout(Before(blocks'[i]), Before(blocks'[j])) # "Greater"
                    /\ (blocks'[i].is_group \/ ~blocks'[j].is_group)
         /\ blocks' = reflow([Self EXCEPT !.blocks = BeforeInNewOrder], last'.a).blocks
         /\ UNCHANGED <<next_block_id, remembered_chains, animation_access_order,
                        panicked>>]_vars

\* C21 witness: a reorder without a leader has left a group with a higher id in front
\* of an image with a lower id, in a row above it.
C21_Witness ==
    /\ last.op = "reorder_and_reflow"
    /\ last.b = NIL_UUID
    /\ \E i, j \in Indices :
           /\ i < j
           /\ blocks[i].id > blocks[j].id
           /\ blocks[i].is_group /\ ~blocks[j].is_group
           /\ blocks[i].position.y < blocks[j].position.y

\* C22: reorder_and_reflow with a leader id of no top-level block changes nothing.
C22_ReorderMissingLeaderNoOp ==
    [][last'.op = "reorder_and_reflow" /\ last'.b \notin TopIds \cup {NIL_UUID} =>
         UNCHANGED <<blocks, next_block_id, remembered_chains, animation_access_order,
                     panicked>>]_vars

\* C22 witness: a reorder with the id of a child of a group as leader has left blocks
\* that are not in layout order.
C22_Witness ==
    /\ last.op = "reorder_and_reflow"
    /\ \E g \in Indices : \E k \in 1..Len(blocks[g].children) :
           blocks[g].children[k].id = last.b
    /\ \E i, j \in Indices : i < j /\ cmp_layout(blocks[i], blocks[j]) = "Greater"

\* C23: clear_chain_group remembers the chained set exactly when it has two members or
\* more, dropping every remembered chain that shares a member with it and keeping the
\* others in order; with fewer members the remembered chains stay as they are; no
\* top-level block is chained afterwards and nothing else changes.
C23_ClearChainGroup ==
    [][last'.op = "clear_chain_group" =>
         /\ remembered_chains' =
              IF Cardinality(ChainedNow) >= 2
              THEN Append(SelectSeq(remembered_chains,
                                    LAMBDA chain : chain \cap ChainedNow = {}),
                          ChainedNow)
              ELSE remembered_chains
         /\ blocks' = [i \in Indices |-> [blocks[i] EXCEPT !.chained = FALSE]]
         /\ UNCHANGED <<next_block_id, animation_access_order, panicked>>]_vars

\* C23 witness: a clear has remembered a chain of two next to an older remembered chain
\* and has dropped the chain flag of a single block before that.
C23_Witness ==
    /\ last.op = "clear_chain_group"
    /\ Cardinality(last.ids) >= 2
    /\ Len(remembered_chains) >= 2
    /\ remembered_chains[Len(remembered_chains)] = last.ids
    /\ \A i \in Indices : ~blocks[i].chained

\* a remembered chain holds the id
Remembered(id) == \E k \in 1..Len(remembered_chains) : id \in remembered_chains[k]

\* C24: toggle_chain never changes the remembered chains; turning a chained block off,
\* or turning on a block of no remembered chain, flips the chained flag of that block
\* and changes no other block.
C24_ToggleChainFrame ==
    [][last'.op = "toggle_chain" =>
         LET i == CHOOSE k \in Indices : blocks[k].id = last'.a IN
         /\ remembered_chains' = remembered_chains
         /\ UNCHANGED <<next_block_id, animation_access_order, panicked>>
         /\ (blocks[i].chained \/ ~Remembered(blocks[i].id) =>
                blocks' = [blocks EXCEPT ![i].chained = ~blocks[i].chained])]_vars

\* C24 witness: a toggle has turned off a block of a remembered chain while another
\* block of that chain is still chained.
C24_Witness ==
    /\ last.op = "toggle_chain"
    /\ Remembered(last.a)
    /\ ~BlockOf(last.a).chained
    /\ \E j \in Indices :
           /\ blocks[j].chained
           /\ \E k \in 1..Len(remembered_chains) :
                  {last.a, blocks[j].id} \subseteq remembered_chains[k]

\* the ids of the children of a block
ChildIds(b) == {b.children[k].id : k \in 1..Len(b.children)}

\* the step has put the top-level blocks with the ids S into one new group
BoxedNow(S) ==
    \E i \in 1..Len(blocks') :
        /\ blocks'[i].is_group
        /\ blocks'[i].id \notin TopIds
        /\ ChildIds(blocks'[i]) = S
        /\ {blocks'[j].id : j \in 1..Len(blocks')} = (TopIds \ S) \cup {blocks'[i].id}

\* the step has taken the top-level group g out and put its children at top level
UnboxedNow(g) ==
    {blocks'[j].id : j \in 1..Len(blocks')} = (TopIds \ {g}) \cup ChildIds(BlockOf(g))

\* the step has left the same top-level blocks with the same children
SameTree ==
    [j \in 1..Len(blocks') |-> <<blocks'[j].id, ChildIds(blocks'[j])>>]
        = [j \in Indices |-> <<blocks[j].id, ChildIds(blocks[j])>>]

\* C25: toggle_compact_group with no chained block boxes the top-level blocks of the
\* last unboxed child set if there is any, otherwise unboxes the last boxed group if it
\* is at top level, otherwise keeps the tree; with one chained block that is a group it
\* unboxes that group; with any other chained set it boxes the chained blocks.
C25_CompactDispatch ==
    [][last'.op = "toggle_compact_group" =>
         LET still == Range(last_unboxed_ids) \cap TopIds IN
         IF ChainedNow = {}
         THEN IF still # {} THEN BoxedNow(still)
              ELSE IF last_boxed_id \in TopIds THEN UnboxedNow(last_boxed_id)
              ELSE SameTree
         ELSE IF Cardinality(ChainedNow) = 1 /\ \A i \in Indices :
                                                  blocks[i].chained => blocks[i].is_group
         THEN UnboxedNow(CHOOSE g \in ChainedNow : TRUE)
         ELSE BoxedNow(ChainedNow)]_vars

\* C25 witness: the toggle has unboxed the one chained block, a group of two, and holds
\* the ids of the two children, which are at top level.
C25_Witness ==
    /\ last.op = "toggle_compact_group"
    /\ last.a = 1
    /\ last.b = 2
    /\ Len(last_unboxed_ids) = 2
    /\ Range(last_unboxed_ids) \subseteq TopIds
    /\ last_boxed_id = NIL_UUID

\* C26: of two toggle_compact_group calls in a row, the second with no block chained:
\* after a box the second call unboxes the group just boxed and puts exactly the boxed
\* blocks back at top level; after an unbox it boxes exactly the blocks just unboxed.
C26_CompactAlternates ==
    [][last.op = "toggle_compact_group" /\ last'.op = "toggle_compact_group"
         /\ ChainedNow = {} =>
           /\ last.b = 1 =>
                /\ UnboxedNow(blocks[1].id)
                /\ ChildIds(blocks[1]) = last.ids
                /\ last'.b = 2
                /\ last'.ids = last.ids
           /\ last.b = 2 =>
                /\ BoxedNow(last.ids)
                /\ last'.b = 1
                /\ last'.ids = last.ids]_vars

\* C26 witness: the toggle, called with no block chained, has boxed two blocks again
\* into the third group made in a row.
C26_Witness ==
    /\ last.op = "toggle_compact_group"
    /\ last.a = 0
    /\ last.b = 1
    /\ Cardinality(last.ids) = 2
    /\ ChildIds(blocks[1]) = last.ids
    /\ blocks[1].id = last_boxed_id
    /\ blocks[1].id >= blocks[1].children[2].id + 3

\* the name update_group_name derives from the child list of b
DerivedName(b) ==
    IF Len(b.children) = 0 THEN GroupName("Empty Group", 0)
    ELSE IF Len(b.children) = 1 THEN GroupName("Box", file_name(b.children[1].path))
    ELSE GroupName("Group of", Len(b.children))

RECURSIVE NamedFromChildren(_)
NamedFromChildren(b) ==
    /\ b.is_group => b.group_name = DerivedName(b)
    /\ \A k \in 1..Len(b.children) : NamedFromChildren(b.children[k])

\* every counter of the tree of b is 0
RECURSIVE CountersZero(_)
CountersZero(b) ==
    /\ b.counter = 0
    /\ \A k \in 1..Len(b.children) : CountersZero(b.children[k])

\* the trees of b and c differ in their counters at most
RECURSIVE SameButCounters(_, _)
SameButCounters(b, c) ==
    /\ \A f \in (DOMAIN b) \ {"counter", "children"} : b[f] = c[f]
    /\ DOMAIN b = DOMAIN c
    /\ Len(b.children) = Len(c.children)
    /\ \A k \in 1..Len(b.children) : SameButCounters(b.children[k], c.children[k])

\* C27: reset_all_counters sets counter to 0 on every top-level block and on every
\* nested child at every depth, and changes no other field of any block.
C27_ResetAllCounters ==
    [][last'.op = "reset_all_counters" =>
          /\ Len(blocks') = Len(blocks)
          /\ \A i \in Indices : /\ CountersZero(blocks'[i])
                                /\ SameButCounters(blocks[i], blocks'[i])
          /\ UNCHANGED <<next_block_id, remembered_chains, animation_access_order,
                         panicked, last_unboxed_ids, last_boxed_id>>]_vars

\* a reset that found a counted image inside a box inside a box
C27_Witness ==
    /\ last.op = "reset_all_counters"
    /\ last.b = 3
    /\ \E i \in Indices : /\ blocks[i].is_group
                          /\ \E k \in 1..Len(blocks[i].children) :
                                 /\ blocks[i].children[k].is_group
                                 /\ blocks[i].children[k].children # <<>>

\* C28: in every state reached by box_chained, drop_into_group and unbox_group, the name
\* of every group block, at any depth, is the one derived from its current child list:
\* "Empty Group" for none, "Box: <file name>" for one child, "Group of N" for N >= 2.
C28_GroupNamesDerived == \A i \in Indices : NamedFromChildren(blocks[i])

\* an image was dropped into a box of one image, which is now named "Group of 2"
C28_Witness ==
    /\ last.op = "drop_into_group"
    /\ \E i \in Indices :
          /\ blocks[i].is_group
          /\ Len(blocks[i].children) = 2
          /\ blocks[i].children[2].id = last.a
          /\ blocks[i].group_name = GroupName("Group of", 2)

\* the ids of b and of all its descendants
RECURSIVE TreeIds(_)
TreeIds(b) == {b.id} \cup UNION {TreeIds(b.children[k]) : k \in 1..Len(b.children)}

\* the top-level blocks a remove_cascade on the block with the given id takes out
CascadeVictims(id) ==
    IF BlockOf(id).chained THEN {j \in Indices : blocks[j].chained}
    ELSE {j \in Indices : blocks[j].id = id}

\* C29: remove_cascade on a chained block removes every chained top-level block with all
\* its descendants and nothing else, on a non-chained block only that block with its
\* descendants; it returns exactly the ids of all removed blocks, and afterwards none of
\* the returned ids is in the animation access order.
C29_RemoveCascade ==
    [][last'.op = "remove_cascade" =>
          LET victims == CascadeVictims(last'.a)
              index == CHOOSE j \in Indices : blocks[j].id = last'.a
              returned == remove_cascade_ids(Self, index)
          IN  /\ blocks' = SelectSeq(blocks, LAMBDA b : \A j \in victims : blocks[j].id # b.id)
              /\ Range(returned) = UNION {TreeIds(blocks[j]) : j \in victims}
              /\ Len(returned) = Cardinality(Range(returned))
              /\ last'.ids = Range(returned)
              /\ Range(returned) \cap Range(animation_access_order') = {}
              /\ \A k \in 1..Len(animation_access_order') :
                     animation_access_order'[k] \in Range(animation_access_order)]_vars

\* a cascade took out a chained box and a chained image, a child of the box was in the
\* animation access order, and a block is left
C29_Witness ==
    /\ last.op = "remove_cascade"
    /\ last.b >= 1
    /\ Cardinality(last.ids) >= 3
    /\ blocks # <<>>

\* the widest image reflow allows for the inner width it is given: the inner width, floored
\* to MIN_CANVAS_INNER_WIDTH as reflow floors it, less the padding on both sides
MaxImageWidth(inner_width) ==
    Max(inner_width, MIN_CANVAS_INNER_WIDTH) - 2 * BLOCK_PADDING

\* a reflow step leaves the preferred size and the aspect ratio of every block alone,
\* gives a block its preferred size when the preferred width is at most `widest`, and
\* otherwise the width `widest` with the height computed from the aspect ratio
ReflowShrinksTo(widest) ==
    /\ Len(blocks') = Len(blocks)
    /\ \A i \in Indices :
          LET before == blocks[i]
              after == blocks'[i]
          IN  /\ after.id = before.id
              /\ after.preferred_image_size = before.preferred_image_size
              /\ after.aspect_ratio = before.aspect_ratio
              /\ after.image_size.x <= after.preferred_image_size.x
              /\ IF before.preferred_image_size.x <= widest
                 THEN after.image_size = before.preferred_image_size
                 ELSE /\ after.image_size.x = widest
                      /\ after.image_size.y =
                            (widest * before.aspect_ratio.d) \div before.aspect_ratio.n

\* C30 as stated: reflow never grows a block and never changes the preferred size: after
\* reflow every block's preferred_image_size is unchanged, image_size is the preferred
\* size when the preferred width fits within inner_width - 2 * BLOCK_PADDING, the
\* inner_width being the one passed to reflow, and otherwise image_size.x is that
\* maximum width with the height computed from the aspect ratio; image_size.x never
\* exceeds preferred_image_size.x.
C30_ReflowNeverGrows ==
    [][last'.op = "reflow" => ReflowShrinksTo(last'.a - 2 * BLOCK_PADDING)]_vars

\* C30: the same with the maximum width
\* max(inner_width, MIN_CANVAS_INNER_WIDTH) - 2 * BLOCK_PADDING, the inner_width as
\* reflow floors it.
C30_ReflowNeverGrowsFloored ==
    [][last'.op = "reflow" => ReflowShrinksTo(MaxImageWidth(last'.a))]_vars

\* a reflow has narrowed one block to the widest image allowed and left another, which
\* fits, at its preferred size
C30_Witness ==
    /\ last.op = "reflow"
    /\ \E i \in Indices : /\ blocks[i].image_size.x < blocks[i].preferred_image_size.x
                          /\ blocks[i].image_size.x = MaxImageWidth(last.a)
    /\ \E i \in Indices : /\ blocks[i].image_size = blocks[i].preferred_image_size
                          /\ blocks[i].preferred_image_size.x <= MaxImageWidth(last.a)

\* no block of the tree of b that is not a group has children
RECURSIVE ChildrenInGroupsOnly(_)
ChildrenInGroupsOnly(b) ==
    /\ ~b.is_group => b.children = <<>>
    /\ \A k \in 1..Len(b.children) : ChildrenInGroupsOnly(b.children[k])

\* C31: in every state reached by toggle_chain, box_chained, unbox_group and
\* drop_into_group as the drag-release handler drives it (the target is a group other
\* than the dragged block), no block with is_group = false has children.
C31_OnlyGroupsHaveChildren ==
    ~panicked => \A i \in Indices : ChildrenInGroupsOnly(blocks[i])

\* the ids of the blocks of the tree of b, one entry per occurrence
RECURSIVE TreeIdSeq(_)
TreeIdSeq(b) ==
    LET RECURSIVE below(_)
        below(cs) == IF cs = <<>> THEN <<>> ELSE TreeIdSeq(Head(cs)) \o below(Tail(cs))
    IN <<b.id>> \o below(b.children)

RECURSIVE AllIdSeq(_)
AllIdSeq(bs) == IF bs = <<>> THEN <<>> ELSE TreeIdSeq(Head(bs)) \o AllIdSeq(Tail(bs))

\* the ids of the non-group blocks anywhere in the trees of bs
RECURSIVE NonGroupIds(_)
NonGroupIds(bs) ==
    UNION {(IF bs[i].is_group THEN {} ELSE {bs[i].id}) \cup NonGroupIds(bs[i].children)
           : i \in 1..Len(bs)}

\* C32: box_chained, unbox_group (on a group) and drop_into_group transfer blocks and
\* never copy or lose one: across each such step the set of ids of non-group blocks
\* anywhere in the tree is unchanged, and after it every block id occurs exactly once in
\* the tree.
C32_OwnershipTransfer ==
    [][last'.op \in {"box_chained", "unbox_group", "drop_into_group"} =>
          /\ NonGroupIds(blocks') = NonGroupIds(blocks)
          /\ Len(AllIdSeq(blocks')) = Cardinality(Range(AllIdSeq(blocks')))]_vars

\* the same across the steps in which drop_into_group does not fault
OwnershipTransferUnlessFaulted ==
    [][(last'.op \in {"box_chained", "unbox_group", "drop_into_group"} /\ ~panicked') =>
          /\ NonGroupIds(blocks') = NonGroupIds(blocks)
          /\ Len(AllIdSeq(blocks')) = Cardinality(Range(AllIdSeq(blocks')))]_vars

\* C33: drop_into_group moves the dropped block, when it is not chained, alone to the end
\* of the target group's children with chained = false and is_dragging = false; when it
\* is chained, every chained top-level block becomes a child of the target group; the
\* target group stays in the top-level collection, every other block is untouched, and
\* the call never faults, also when the target group itself is chained.
C33_DropIntoGroup ==
    [][last'.op = "drop_into_group" =>
          LET dropped == BlockOf(last'.a)
              moved == IF dropped.chained THEN last'.ids \ {last'.b} ELSE {last'.a}
              target == CHOOSE j \in Indices : blocks[j].id = last'.b
              rest == SelectSeq(blocks, LAMBDA b : b.id \notin moved)
              target_after == CHOOSE j \in 1..Len(rest) : rest[j].id = last'.b
              children == blocks'[target_after].children
              old == Len(blocks[target].children)
          IN  /\ ~panicked'
              /\ Len(blocks') = Len(rest)
              /\ \A j \in 1..Len(rest) :
                     j # target_after => blocks'[j] = rest[j]
              /\ blocks'[target_after].id = last'.b
              /\ blocks'[target_after].is_group
              /\ Len(children) = old + Cardinality(moved)
              /\ \A k \in 1..old : children[k] = blocks[target].children[k]
              /\ {children[k].id : k \in (old + 1)..Len(children)} = moved
              /\ \A k \in (old + 1)..Len(children) :
                     children[k] = [BlockOf(children[k].id) EXCEPT !.chained = FALSE,
                                                                   !.is_dragging = FALSE]
              /\ ~dropped.chained => children[Len(children)].id = last'.a]_vars

\* C34: reorder_and_reflow with no leader, applied to a collection that
\* reorder_and_reflow with no leader (same inner_width) has just produced, leaves the
\* order and the positions of all blocks unchanged, also for minimum-size blocks whose
\* rows are less than ROW_QUANTIZATION_HEIGHT apart.
C34_SettleIdempotent ==
    (last.op = "reorder_and_reflow" /\ last.b = NIL_UUID) =>
        reorder_and_reflow(Self, NIL_UUID, last.a).blocks = blocks

\* the quotient of y by ROW_QUANTIZATION_HEIGHT, truncated toward zero
TruncatedRow(y) ==
    CHOOSE q \in -10..10 :
        IF y >= 0
        THEN q * ROW_QUANTIZATION_HEIGHT <= y /\ y < (q + 1) * ROW_QUANTIZATION_HEIGHT
        ELSE (q - 1) * ROW_QUANTIZATION_HEIGHT < y /\ y <= q * ROW_QUANTIZATION_HEIGHT

\* C35: should_insert_before(leader_pos, block_pos) is true exactly when the leader's
\* row index (Y / ROW_QUANTIZATION_HEIGHT, truncated) is smaller than the block's, or
\* the row indices are equal and the leader's X is strictly smaller; for two blocks of
\* the same category this is cmp_layout returning Less.
C35_InsertOrderIsLayoutOrder ==
    last.op = "should_insert_before" =>
        LET leader == BlockOf(last.a)
            block == BlockOf(last.b)
            leader_row == TruncatedRow(leader.position.y)
            block_row == TruncatedRow(block.position.y)
        IN  /\ (last.c = 1) <=>
                   \/ leader_row < block_row
                   \/ leader_row = block_row /\ leader.position.x < block.position.x
            /\ leader.is_group = block.is_group =>
                   ((last.c = 1) <=> cmp_layout(leader, block) = "Less")

\* the leader at a negative y is in the row of a block at a positive y below
\* ROW_QUANTIZATION_HEIGHT and left of it: it goes before
C35_Witness ==
    /\ last.op = "should_insert_before"
    /\ last.c = 1
    /\ BlockOf(last.a).position.y < 0
    /\ BlockOf(last.b).position.y > 0
    /\ BlockOf(last.b).position.y < ROW_QUANTIZATION_HEIGHT
    /\ BlockOf(last.a).is_group = BlockOf(last.b).is_group

\* C36: in every reachable state the animation access order holds no id twice and has
\* at most MAX_CACHED_ANIMATIONS entries, and right after mark_animation_used(id) the id
\* is its last entry.
C36_AccessOrderWellFormed ==
    /\ \A i, j \in 1..Len(animation_access_order) :
           i # j => animation_access_order[i] # animation_access_order[j]
    /\ Len(animation_access_order) <= MAX_CACHED_ANIMATIONS
    /\ last.op = "mark_animation_used" =>
           /\ animation_access_order # <<>>
           /\ animation_access_order[Len(animation_access_order)] = last.a

\* the oldest block was marked again while the list was full
C36_Witness ==
    /\ last.op = "mark_animation_used"
    /\ last.a = 1
    /\ Len(animation_access_order) = MAX_CACHED_ANIMATIONS
    /\ animation_access_order[1] # 1

\* C37: after a removal (remove, remove_by_id, remove_with_children or remove_cascade,
\* on a chained or a non-chained block) no remembered chain contains the id of a block
\* the call removed.
C37_NoRemovedIdRemembered ==
    last.op \in {"remove", "remove_by_id", "remove_with_children", "remove_cascade"} =>
        \A k \in 1..Len(remembered_chains) : remembered_chains[k] \cap last.ids = {}

\* C38: unbox_group on an index that holds a non-group block leaves the top-level
\* collection unchanged and returns an empty id list.
C38_UnboxNonGroupNoOp ==
    [][(last'.op = "unbox_group" /\ ~BlockOf(last'.a).is_group) =>
          /\ blocks' = blocks
          /\ last'.ids = {}]_vars

\* the playback state of every block of the tree of b is in range
RECURSIVE PlaybackInRange(_)
PlaybackInRange(b) ==
    /\ b.frames > 0 => b.current_frame < b.frames
    /\ b.current_frame >= 0
    /\ b.animation_enabled => b.frames > 1
    /\ \A k \in 1..Len(b.children) : PlaybackInRange(b.children[k])

\* C39: in every state reached by toggle_animation, update_animation, stop_animation and
\* cache eviction (mark_animation_used), each block's current_frame is less than its
\* frame count whenever it has frames, and animation_enabled is true only for blocks
\* holding more than one frame.
C39_PlaybackInRange == \A i \in Indices : PlaybackInRange(blocks[i])

\* the animation of a block has wrapped around to its first frame
C39_Witness ==
    /\ last.op = "update_animation"
    /\ BlockOf(last.a).animation_enabled
    /\ BlockOf(last.a).current_frame = 0
    /\ BlockOf(last.a).frames > 1

\* the right and the bottom edge of the outer rectangle of b: the image and the padding
\* on both sides
OuterRight(b) == b.position.x + b.image_size.x + 2 * BLOCK_PADDING
OuterBottom(b) == b.position.y + b.image_size.y + 2 * BLOCK_PADDING

\* the outer rectangles of a and b have a point in common
Overlap(a, b) ==
    /\ a.position.x < OuterRight(b) /\ b.position.x < OuterRight(a)
    /\ a.position.y < OuterBottom(b) /\ b.position.y < OuterBottom(a)

\* C40: after reflow with any inner_width the outer rectangles of two distinct top-level
\* blocks do not overlap: blocks of one row are at least ALIGN_SPACING apart
\* horizontally, and a row starts at least ALIGN_SPACING below every block of the rows
\* above it, the tallest included.
C40_ReflowNoOverlap ==
    last.op = "reflow" =>
        \A i, j \in Indices :
            i < j =>
                /\ ~Overlap(blocks[i], blocks[j])
                /\ blocks[i].position.y <= blocks[j].position.y
                /\ blocks[i].position.y = blocks[j].position.y =>
                       blocks[j].position.x >= OuterRight(blocks[i]) + ALIGN_SPACING
                /\ blocks[i].position.y < blocks[j].position.y =>
                       blocks[j].position.y >= OuterBottom(blocks[i]) + ALIGN_SPACING

\* a reflow has put a tall and then a short block into one row and a third block into
\* the next row, ALIGN_SPACING below the tall one
C40_Witness ==
    /\ last.op = "reflow"
    /\ \E i, j, k \in Indices :
           /\ i < j /\ j < k
           /\ blocks[i].position.y = blocks[j].position.y
           /\ blocks[i].image_size.y > blocks[j].image_size.y
           /\ blocks[k].position.y = OuterBottom(blocks[i]) + ALIGN_SPACING
====
